---- MODULE Spec2Model ----
(***************************************************************************)
(* Order fulfilment ledger of the dry-cleaner shop backend: orders and     *)
(* their line items (orders/models.py, orders/views.py,                    *)
(* orders/serializers.py) and the customer loyalty ledger                  *)
(* (customers/models.py, customers/views.py, customers/serializers.py),    *)
(* the order numbers of Order.save and the in-app notifications            *)
(* (notifications/models.py, notifications/services.py,                    *)
(* notifications/views.py).                                                *)
(* Money is counted in cents, so Decimal arithmetic with two places is     *)
(* integer arithmetic.                                                     *)
(***************************************************************************)
EXTENDS Integers, Sequences, FiniteSets, TLC

VARIABLES orders, items, history, price, clock, last,
          loyalty_points, initial_points, ledger, reqs,
          total_spent, membership_tier,
          order_number,
          notifications, prefs, batches

vars == <<orders, items, history, price, clock, last, loyalty_points, initial_points, ledger, reqs,
          total_spent, membership_tier, order_number, notifications, prefs, batches>>
orderVars == <<orders, items, history, price, clock>>
profileVars == <<total_spent, membership_tier>>
loyaltyVars == <<loyalty_points, initial_points, ledger, reqs, profileVars>>
numberVars == <<order_number>>
notifVars == <<notifications, prefs, batches>>

(***************************************************************************)
(* Bounds of the model.                                                    *)
(***************************************************************************)
MaxOrders == 2
MaxItems == 2
MaxQuantity == 2
MaxPrice == 2
MaxClock == 2
MaxCreateItems == 1
MaxLedger == 3
MaxRequests == 2
MaxTimestamp == 1
MaxSuffix == 1
MaxNotifications == 2
MaxBatches == 1
MaxRecipients == 2
MaxDaysOld == 1

(***************************************************************************)
(* Users, shops and the price catalogue.                                   *)
(***************************************************************************)
\* the users that send requests; shop s2 belongs to an owner who sends none
Users == {"owner1", "staff1", "cust1"}
Shops == {"s1", "s2"}
NoShop == "none"

\* accounts.User.role
role(u) ==
    CASE u = "owner1" -> "shop_owner"
      [] u = "staff1" -> "staff"
      [] OTHER -> "customer"

\* hasattr(user, 'shop'): reverse side of Shop.owner (OneToOneField)
HasShop(u) == u = "owner1"
UserShop(u) == IF u = "owner1" THEN "s1" ELSE NoShop

\* hasattr(user, 'staff_profile'): reverse side of ShopStaff.user; the
\* profile is active and has can_take_orders / can_update_orders (defaults)
HasStaffProfile(u) == u = "staff1"
StaffShop(u) == IF u = "staff1" THEN "s1" ELSE NoShop

\* ServicePrice rows and the shop each belongs to
ServicePrices == {"sp1", "sp2"}
SpShop(sp) == IF sp = "sp1" THEN "s1" ELSE "s2"
Prices == 1..MaxPrice
Quantities == 1..MaxQuantity

\* Order.STATUS_CHOICES
STATUS_CHOICES == {"pending", "confirmed", "in_progress", "ready", "completed", "cancelled"}
\* a guard list that also lets confirmed orders through
MutableStatusesWide == {"received", "confirmed"}
\* the literal list the item views compare the status with
MutableStatuses == {"received"}

OrderIds == 1..MaxOrders
ItemIds == 1..MaxItems

\* sum(item.total_price for item in self.items.all())
RECURSIVE SumTotal(_, _)
SumTotal(its, S) ==
    IF S = {} THEN 0
    ELSE LET i == CHOOSE x \in S : TRUE
         IN its[i].total_price + SumTotal(its, S \ {i})

ItemsOf(its, o) == {i \in DOMAIN its : its[i].order = o}

\* calculate_total that forgets to mirror the subtotal into total_amount
calculate_total_stale(ords, its, o) ==
    LET sub == SumTotal(its, ItemsOf(its, o))
    IN [ords EXCEPT ![o].subtotal = sub]

\* Order.calculate_total followed by Order.save
calculate_total(ords, its, o) ==
    LET sub == SumTotal(its, ItemsOf(its, o))
    IN [ords EXCEPT ![o].subtotal = sub, ![o].total_amount = sub]

\* smallest identifier not in use (identifiers are opaque row keys)
FreshId(f, Ids) == CHOOSE k \in Ids \ DOMAIN f : \A j \in Ids \ DOMAIN f : k <= j

\* a function with one key removed (row deletion)
Without(f, k) == [j \in DOMAIN f \ {k} |-> f[j]]

\* core.permissions.CanTakeOrders / CanUpdateOrders
CanTakeOrders(u) ==
    \/ role(u) = "shop_owner" /\ HasShop(u)
    \/ role(u) = "staff" /\ HasStaffProfile(u)

CanUpdateOrders(u) ==
    \/ role(u) = "shop_owner" /\ HasShop(u)
    \/ role(u) = "staff" /\ HasStaffProfile(u)

\* the role based lookup of add_order_item, remove_order_item and
\* OrderDetailView.get_queryset
VisibleOrder(u, o) ==
    /\ o \in DOMAIN orders
    /\ IF role(u) = "shop_owner" /\ HasShop(u) THEN orders[o].shop = UserShop(u)
       ELSE IF role(u) = "staff" /\ HasStaffProfile(u) THEN orders[o].shop = StaffShop(u)
       ELSE orders[o].customer = u

\* OrderStatusUpdateView.get_queryset
StatusQueryset(u, o) ==
    /\ o \in DOMAIN orders
    /\ IF role(u) = "shop_owner" /\ HasShop(u) THEN orders[o].shop = UserShop(u)
       ELSE IF role(u) = "staff" /\ HasStaffProfile(u) THEN orders[o].shop = StaffShop(u)
       ELSE FALSE

\* OrderItemSerializer.validate_service_price_id: TRUE when the value is accepted
validate_service_price_id(u, sp) ==
    /\ sp \in DOMAIN price
    /\ ~(HasShop(u) /\ SpShop(sp) # UserShop(u))

\* the ceiling core/validators.py names for a quantity
MaxOrderQuantity == 100

\* core.validators.validate_order_quantity: TRUE when the value passes
validate_order_quantity(value) == ~(value <= 0) /\ ~(value > MaxOrderQuantity)

\* the quantity field of OrderItemSerializer, built from
\* OrderItem.quantity = PositiveIntegerField(default=1): the field names no
\* validators, so the only bound is the non-negativity of the field type
QuantityFieldValid(q) == q >= 0

\* OrderItem.save: fills unit_price when it is None or zero, computes
\* total_price, writes the row and recomputes the order total
NewItem(o, sp, q) == [order |-> o, sp |-> sp, quantity |-> q, unit_price |-> 0, total_price |-> 0]

\* a save that takes the unit price from the service price every time
SavedItemRepriced(rec) ==
    LET unit == price[rec.sp]
    IN [rec EXCEPT !.unit_price = unit, !.total_price = unit * rec.quantity]

SavedItem(rec) ==
    LET unit == IF rec.unit_price = 0 THEN price[rec.sp] ELSE rec.unit_price
    IN [rec EXCEPT !.unit_price = unit, !.total_price = unit * rec.quantity]

ItemsAfterSave(its, i, rec) == [j \in DOMAIN its \cup {i} |-> IF j = i THEN SavedItem(rec) ELSE its[j]]

OrderItemSave(ords, its, i, rec) ==
    LET its2 == ItemsAfterSave(its, i, rec)
    IN [items |-> its2, orders |-> calculate_total(ords, its2, rec.order)]

\* the last request and its HTTP response: the operation, the order id (or,
\* for a loyalty request, the points) it named, the status code and the
\* check that produced it
Resp(op, u, arg, code, detail) == [op |-> op, arg |-> arg, code |-> code, detail |-> detail]

\* POST /orders/<order_id>/items/
add_order_item(u, o, sp, q) ==
    /\ IF ~VisibleOrder(u, o)
       THEN /\ last' = Resp("add_item", u, o, 404, "not_found")
            /\ UNCHANGED <<orders, items>>
       ELSE IF orders[o].status \notin MutableStatuses
       THEN /\ last' = Resp("add_item", u, o, 400, "invalid_state")
            /\ UNCHANGED <<orders, items>>
       ELSE IF validate_service_price_id(u, sp) /\ QuantityFieldValid(q)
       THEN LET i == FreshId(items, ItemIds)
                saved == OrderItemSave(orders, items, i, NewItem(o, sp, q))
            IN /\ Cardinality(DOMAIN items) < MaxItems
               /\ items' = saved.items
               /\ orders' = calculate_total(saved.orders, saved.items, o)
               /\ last' = Resp("add_item", u, o, 201, "ok")
       ELSE /\ last' = Resp("add_item", u, o, 400, "validation")
            /\ UNCHANGED <<orders, items>>
    /\ UNCHANGED <<history, price, clock, loyaltyVars, numberVars, notifVars>>

\* DELETE /orders/<order_id>/items/<item_id>/
remove_order_item(u, o, i) ==
    /\ IF ~VisibleOrder(u, o)
       THEN /\ last' = Resp("remove_item", u, o, 404, "not_found")
            /\ UNCHANGED <<orders, items>>
       ELSE IF orders[o].status \notin MutableStatuses
       THEN /\ last' = Resp("remove_item", u, o, 400, "invalid_state")
            /\ UNCHANGED <<orders, items>>
       ELSE IF ~(i \in DOMAIN items /\ items[i].order = o)
       THEN /\ last' = Resp("remove_item", u, o, 404, "not_found")
            /\ UNCHANGED <<orders, items>>
       ELSE LET its2 == Without(items, i)
            IN /\ items' = its2
               /\ orders' = calculate_total(orders, its2, o)
               /\ last' = Resp("remove_item", u, o, 204, "ok")
    /\ UNCHANGED <<history, price, clock, loyaltyVars, numberVars, notifVars>>

\* Order.objects.create(customer=user, shop=..., **validated_data): the row
\* of a new order (status default 'pending', totals default 0.00)
NewOrder(u, shop, st) ==
    [shop |-> shop, customer |-> u, status |-> st, subtotal |-> 0, total_amount |-> 0,
     confirmed_at |-> 0, completed_at |-> 0]

\* the loop of OrderCreateSerializer.create: OrderItem.objects.create for
\* each validated item, in request order
RECURSIVE CreateItems(_, _, _, _)
CreateItems(ords, its, o, reqItems) ==
    IF reqItems = <<>> THEN [items |-> its, orders |-> ords]
    ELSE LET r == Head(reqItems)
             saved == OrderItemSave(ords, its, FreshId(its, ItemIds), NewItem(o, r.sp, r.quantity))
         IN CreateItems(saved.orders, saved.items, o, Tail(reqItems))

\* the item lists a create request can carry
ItemRequests == [sp : ServicePrices, quantity : Quantities]
ItemLists == UNION {[1..n -> ItemRequests] : n \in 0..MaxCreateItems}

\* quantities a request can carry, in and out of the range 1..100
QuantityInputs == {-1, 0, 1, MaxOrderQuantity, MaxOrderQuantity + 1}
ItemRequestsAnyQuantity == [sp : ServicePrices, quantity : QuantityInputs]
ItemListsAnyQuantity == UNION {[1..n -> ItemRequestsAnyQuantity] : n \in 0..MaxCreateItems}

\* POST /orders/ (OrderListCreateView with OrderCreateSerializer)
create_order(u, reqItems) ==
    /\ IF ~CanTakeOrders(u)
       THEN /\ last' = Resp("create_order", u, 0, 403, "forbidden")
            /\ UNCHANGED <<orders, items, history>>
       ELSE IF \E k \in DOMAIN reqItems : \/ ~validate_service_price_id(u, reqItems[k].sp)
                                          \/ ~QuantityFieldValid(reqItems[k].quantity)
       THEN /\ last' = Resp("create_order", u, 0, 400, "validation")
            /\ UNCHANGED <<orders, items, history>>
       ELSE IF ~HasShop(u)
       THEN \* shop=None: Order.save raises on self.shop.id before any write
            /\ last' = Resp("create_order", u, 0, 500, "server_error")
            /\ UNCHANGED <<orders, items, history>>
       ELSE LET o == FreshId(orders, OrderIds)
                ords2 == [j \in DOMAIN orders \cup {o} |->
                            IF j = o THEN NewOrder(u, UserShop(u), "pending") ELSE orders[j]]
                done == CreateItems(ords2, items, o, reqItems)
            IN /\ Cardinality(DOMAIN orders) < MaxOrders
               /\ Cardinality(DOMAIN items) + Len(reqItems) <= MaxItems
               /\ orders' = done.orders
               /\ items' = done.items
               /\ history' = [j \in DOMAIN orders \cup {o} |-> IF j = o THEN <<>> ELSE history[j]]
               /\ last' = Resp("create_order", u, o, 201, "ok")
    /\ UNCHANGED <<price, clock, loyaltyVars, numberVars, notifVars>>

\* the values a request can send as status: the choices, a value outside
\* the choices, or no status at all
NoStatus == "absent"
StatusInputs == STATUS_CHOICES \cup {"received", NoStatus}

\* an update that writes no history row
StatusUpdateUnlogged(ord, hist, u, st) ==
    LET old_status == ord.status
        new_status == IF st = NoStatus THEN old_status ELSE st
        updated == [ord EXCEPT !.status = new_status]
    IN IF old_status # new_status
       THEN [order |-> [updated EXCEPT
                          !.confirmed_at = IF new_status = "confirmed" THEN clock ELSE @,
                          !.completed_at = IF new_status = "completed" THEN clock ELSE @],
             history |-> hist,
             changed |-> TRUE]
       ELSE [order |-> updated, history |-> hist, changed |-> FALSE]

\* an update that writes a history row and the timestamps whether or not
\* the status differs
StatusUpdateAlwaysLogs(ord, hist, u, st) ==
    LET old_status == ord.status
        new_status == IF st = NoStatus THEN old_status ELSE st
        updated == [ord EXCEPT !.status = new_status]
    IN [order |-> [updated EXCEPT
                     !.confirmed_at = IF new_status = "confirmed" THEN clock ELSE @,
                     !.completed_at = IF new_status = "completed" THEN clock ELSE @],
        history |-> Append(hist, [status |-> new_status, changed_by |-> u, changed_at |-> clock]),
        changed |-> TRUE]

\* an update without the elif branch for completed
StatusUpdateNoCompletedAt(ord, hist, u, st) ==
    LET old_status == ord.status
        new_status == IF st = NoStatus THEN old_status ELSE st
        updated == [ord EXCEPT !.status = new_status]
    IN IF old_status # new_status
       THEN [order |-> [updated EXCEPT
                          !.confirmed_at = IF new_status = "confirmed" THEN clock ELSE @],
             history |-> Append(hist, [status |-> new_status, changed_by |-> u, changed_at |-> clock]),
             changed |-> TRUE]
       ELSE [order |-> updated, history |-> hist, changed |-> FALSE]

\* OrderStatusUpdateSerializer.update
StatusUpdate(ord, hist, u, st) ==
    LET old_status == ord.status
        new_status == IF st = NoStatus THEN old_status ELSE st
        updated == [ord EXCEPT !.status = new_status]
    IN IF old_status # new_status
       THEN [order |-> [updated EXCEPT
                          !.confirmed_at = IF new_status = "confirmed" THEN clock ELSE @,
                          !.completed_at = IF new_status = "completed" THEN clock ELSE @],
             history |-> Append(hist, [status |-> new_status, changed_by |-> u, changed_at |-> clock]),
             changed |-> TRUE]
       ELSE [order |-> updated, history |-> hist, changed |-> FALSE]

\* PUT/PATCH /orders/<pk>/status/ (OrderStatusUpdateView)
update_order_status(u, o, st) ==
    /\ IF ~CanUpdateOrders(u)
       THEN /\ last' = Resp("update_status", u, o, 403, "forbidden")
            /\ UNCHANGED <<orders, history, clock>>
       ELSE IF ~StatusQueryset(u, o)
       THEN /\ last' = Resp("update_status", u, o, 404, "not_found")
            /\ UNCHANGED <<orders, history, clock>>
       ELSE IF st \notin STATUS_CHOICES \cup {NoStatus}
       THEN /\ last' = Resp("update_status", u, o, 400, "validation")
            /\ UNCHANGED <<orders, history, clock>>
       ELSE LET res == StatusUpdate(orders[o], history[o], u, st)
            IN /\ res.changed => clock <= MaxClock
               /\ orders' = [orders EXCEPT ![o] = res.order]
               /\ history' = [history EXCEPT ![o] = res.history]
               /\ clock' = IF res.changed THEN clock + 1 ELSE clock
               /\ last' = Resp("update_status", u, o, 200, "ok")
    /\ UNCHANGED <<items, price, loyaltyVars, numberVars, notifVars>>

\* Meta.fields of OrderSerializer, the fields it declares itself and the
\* fields and attributes of the Order model
OrderSerializerFields ==
    {"id", "order_number", "status", "pickup_type", "customer", "customer_details", "shop",
     "customer_name", "customer_phone", "pickup_address", "special_instructions",
     "estimated_completion", "created_at", "updated_at", "confirmed_at", "completed_at",
     "subtotal", "tax_amount", "total_amount", "items", "status_history"}
OrderSerializerDeclared == {"items", "customer_details", "status_history"}
OrderModelFields ==
    {"id", "customer", "shop", "order_number", "status", "pickup_type", "customer_name",
     "customer_phone", "pickup_address", "special_instructions", "estimated_completion",
     "created_at", "updated_at", "confirmed_at", "completed_at", "subtotal", "total_amount"}
\* a name in Meta.fields that is neither declared nor on the model makes the
\* serializer raise ImproperlyConfigured when its fields are built
OrderSerializerUsable == OrderSerializerFields \subseteq (OrderSerializerDeclared \cup OrderModelFields)

\* PUT/PATCH /orders/<pk>/ (OrderDetailView with OrderSerializer)
update_order(u, o, st) ==
    /\ IF ~VisibleOrder(u, o)
       THEN /\ last' = Resp("update_order", u, o, 404, "not_found")
            /\ UNCHANGED orders
       ELSE IF ~OrderSerializerUsable
       THEN /\ last' = Resp("update_order", u, o, 500, "server_error")
            /\ UNCHANGED orders
       ELSE IF st \notin STATUS_CHOICES \cup {NoStatus}
       THEN /\ last' = Resp("update_order", u, o, 400, "validation")
            /\ UNCHANGED orders
       ELSE /\ orders' = [orders EXCEPT ![o].status = IF st = NoStatus THEN @ ELSE st]
            /\ last' = Resp("update_order", u, o, 200, "ok")
    /\ UNCHANGED <<items, history, price, clock, loyaltyVars, numberVars, notifVars>>

\* the shop whose orders the model follows: the one with acting owner and staff
OrderShops == {"s1"}

\* users that place orders as customers
Customers == {u \in Users : role(u) = "customer"}

\* Order.objects.create(customer=..., shop=..., status=...) as the model
\* layer allows it: status is a CharField whose choices save() does not check
store_order(u, shop, st) ==
    /\ Cardinality(DOMAIN orders) < MaxOrders
    /\ LET o == FreshId(orders, OrderIds)
       IN /\ orders' = [j \in DOMAIN orders \cup {o} |-> IF j = o THEN NewOrder(u, shop, st) ELSE orders[j]]
          /\ history' = [j \in DOMAIN orders \cup {o} |-> IF j = o THEN <<>> ELSE history[j]]
          /\ last' = Resp("store_order", u, o, 0, "ok")
    /\ UNCHANGED <<items, price, clock, loyaltyVars, numberVars, notifVars>>

\* a later change of ServicePrice.price (validate_price: greater than 0)
set_price(sp, p) ==
    /\ sp \in DOMAIN price
    /\ price[sp] # p
    /\ price' = [price EXCEPT ![sp] = p]
    /\ last' = Resp("set_price", "none", 0, 0, "ok")
    /\ UNCHANGED <<orders, items, history, clock, loyaltyVars, numberVars, notifVars>>

\* ServicePrice.delete() (model layer or admin): the collector deletes the
\* OrderItem rows that reference the price (on_delete=CASCADE) with the
\* price row; no code of Order or OrderItem runs for them
delete_service_price(sp) ==
    /\ sp \in DOMAIN price
    /\ price' = Without(price, sp)
    /\ items' = [i \in {j \in DOMAIN items : items[j].sp # sp} |-> items[i]]
    /\ last' = Resp("delete_service_price", "none",
                    Cardinality({j \in DOMAIN items : items[j].sp = sp}), 0, "ok")
    /\ UNCHANGED <<orders, history, clock, loyaltyVars, numberVars, notifVars>>

\* OrderItem.save on a row that already exists
resave_item(i) ==
    /\ i \in DOMAIN items
    /\ LET saved == OrderItemSave(orders, items, i, items[i])
       IN /\ items' = saved.items
          /\ orders' = saved.orders
    /\ last' = Resp("resave_item", "none", i, 0, "ok")
    /\ UNCHANGED <<history, price, clock, loyaltyVars, numberVars, notifVars>>

(***************************************************************************)
(* Loyalty ledger: CustomerProfile.loyalty_points and the                  *)
(* LoyaltyTransaction rows of one customer.                                *)
(***************************************************************************)
InitialBalances == {0, 50}
EarnInputs == {20, 30}
RedeemInputs == {-20, 0, 20, 30, 60}
Requests == 1..MaxRequests

\* sum of LoyaltyTransaction.points over the ledger
RECURSIVE LedgerSum(_)
LedgerSum(l) == IF l = <<>> THEN 0 ELSE Head(l).points + LedgerSum(Tail(l))

\* LoyaltyTransaction.objects.create(customer, type, points, description)
LoyaltyTransaction(type, points) == [type |-> type, points |-> points]

\* CustomerProfile.add_loyalty_points
add_loyalty_points(bal, led, points) ==
    [loyalty_points |-> bal + points,
     ledger |-> Append(led, LoyaltyTransaction("earned", points))]

\* a redeem that books the points with the wrong sign
redeem_loyalty_points_unsigned(bal, led, points) ==
    IF bal >= points
    THEN [loyalty_points |-> bal - points,
          ledger |-> Append(led, LoyaltyTransaction("redeemed", points)),
          ok |-> TRUE]
    ELSE [loyalty_points |-> bal, ledger |-> led, ok |-> FALSE]

\* CustomerProfile.redeem_loyalty_points on a profile instance whose
\* loyalty_points attribute is bal; ok is the returned boolean
redeem_loyalty_points(bal, led, points) ==
    IF bal >= points
    THEN [loyalty_points |-> bal - points,
          ledger |-> Append(led, LoyaltyTransaction("redeemed", -points)),
          ok |-> TRUE]
    ELSE [loyalty_points |-> bal, ledger |-> led, ok |-> FALSE]

\* a serializer without the min_value bound
LoyaltyRedemptionValidNoMin(bal, points) == ~(bal < points)

\* LoyaltyRedemptionSerializer: IntegerField(min_value=1) and validate_points
\* against the profile's balance
LoyaltyRedemptionValid(bal, points) ==
    /\ points >= 1
    /\ ~(bal < points)

\* amounts are kept in cents (decimal_places=2): one currency unit
CentsPerUnit == 100

\* thresholds compared with > instead of >=
update_membership_tier_exclusive(spent) ==
    IF spent > 1000 * CentsPerUnit THEN "platinum"
    ELSE IF spent > 500 * CentsPerUnit THEN "gold"
    ELSE IF spent > 200 * CentsPerUnit THEN "silver"
    ELSE "bronze"

\* CustomerProfile.update_membership_tier: the tier it stores for a
\* cumulative spend
update_membership_tier(spent) ==
    IF spent >= 1000 * CentsPerUnit THEN "platinum"
    ELSE IF spent >= 500 * CentsPerUnit THEN "gold"
    ELSE IF spent >= 200 * CentsPerUnit THEN "silver"
    ELSE "bronze"

\* prices of whole currency units, and the service prices of the shop
\* whose orders the model follows
UnitPrices == {CentsPerUnit, 2 * CentsPerUnit}
OrderShopPrices == {sp \in ServicePrices : SpShop(sp) \in OrderShops}

\* CustomerProfile.TIER_CHOICES
TIER_CHOICES == {"bronze", "silver", "gold", "platinum"}

\* cumulative spends around the thresholds, in cents
SpentInputs ==
    {0, 200 * CentsPerUnit - 1, 200 * CentsPerUnit, 500 * CentsPerUnit - 1, 500 * CentsPerUnit,
     1000 * CentsPerUnit - 1, 1000 * CentsPerUnit, 1000 * CentsPerUnit + 1}

\* profile.total_spent = spent; profile.save(): the field is read-only in
\* the serializers and the admin, so only model-layer code writes it
store_total_spent(spent) ==
    /\ total_spent # spent
    /\ total_spent' = spent
    /\ last' = Resp("store_total_spent", "cust1", spent, 0, "ok")
    /\ UNCHANGED <<orderVars, numberVars, notifVars, loyalty_points, initial_points, ledger, reqs,
                   membership_tier>>

\* profile.membership_tier = tier; profile.save() (any of the choices)
store_membership_tier(tier) ==
    /\ membership_tier # tier
    /\ membership_tier' = tier
    /\ last' = Resp("store_membership_tier", "cust1", 0, 0, "ok")
    /\ UNCHANGED <<orderVars, numberVars, notifVars, loyalty_points, initial_points, ledger, reqs,
                   total_spent>>

\* a call of CustomerProfile.update_membership_tier on a freshly loaded
\* profile: the tier is computed from total_spent and written with
\* save(update_fields=['membership_tier'])
call_update_membership_tier ==
    /\ membership_tier' = update_membership_tier(total_spent)
    /\ last' = Resp("update_membership_tier", "cust1", total_spent, 0, "ok")
    /\ UNCHANGED <<orderVars, numberVars, notifVars, loyalty_points, initial_points, ledger, reqs,
                   total_spent>>

\* a call of add_loyalty_points on a freshly loaded profile
earn(points) ==
    /\ Len(ledger) < MaxLedger
    /\ LET res == add_loyalty_points(loyalty_points, ledger, points)
       IN /\ loyalty_points' = res.loyalty_points
          /\ ledger' = res.ledger
    /\ last' = Resp("earn", "cust1", points, 0, "ok")
    /\ UNCHANGED <<orderVars, numberVars, notifVars, profileVars, initial_points, reqs>>

\* POST /customers/loyalty/redeem/ run from start to end with no other
\* request in between
redeem(points) ==
    /\ IF ~LoyaltyRedemptionValid(loyalty_points, points)
       THEN /\ last' = Resp("redeem", "cust1", points, 400, "validation")
            /\ UNCHANGED <<loyalty_points, ledger>>
       ELSE LET res == redeem_loyalty_points(loyalty_points, ledger, points)
            IN /\ res.ok => Len(ledger) < MaxLedger
               /\ loyalty_points' = res.loyalty_points
               /\ ledger' = res.ledger
               /\ last' = IF res.ok THEN Resp("redeem", "cust1", points, 200, "ok")
                          ELSE Resp("redeem", "cust1", points, 400, "insufficient")
    /\ UNCHANGED <<orderVars, numberVars, notifVars, profileVars, initial_points, reqs>>

\* The same request as the database sees it when requests overlap.
\* First read: request.user.customer_profile is loaded (by validate_points)
\* and kept on the request; every later check uses this instance.
redeem_load(r, points) ==
    /\ reqs[r].pc = "idle"
    /\ reqs' = [reqs EXCEPT ![r] = [pc |-> "loaded", points |-> points,
                                    balance |-> loyalty_points, result |-> "none"]]
    /\ last' = Resp("redeem_load", "cust1", 0, 0, "ok")
    /\ UNCHANGED <<orderVars, numberVars, notifVars, profileVars, loyalty_points, initial_points, ledger>>

\* validation and the balance check on the loaded instance, then
\* self.save(update_fields=['loyalty_points']) writes the instance's value
redeem_save(r) ==
    /\ reqs[r].pc = "loaded"
    /\ IF ~LoyaltyRedemptionValid(reqs[r].balance, reqs[r].points)
       THEN /\ reqs' = [reqs EXCEPT ![r].pc = "done", ![r].result = "validation"]
            /\ last' = Resp("redeem", "cust1", 0, 400, "validation")
            /\ UNCHANGED loyalty_points
       ELSE LET res == redeem_loyalty_points(reqs[r].balance, <<>>, reqs[r].points)
            IN IF res.ok
               THEN /\ loyalty_points' = res.loyalty_points
                    /\ reqs' = [reqs EXCEPT ![r].pc = "saved", ![r].balance = res.loyalty_points]
                    /\ last' = Resp("redeem_save", "cust1", 0, 0, "ok")
               ELSE /\ reqs' = [reqs EXCEPT ![r].pc = "done", ![r].result = "insufficient"]
                    /\ last' = Resp("redeem", "cust1", 0, 400, "insufficient")
                    /\ UNCHANGED loyalty_points
    /\ UNCHANGED <<orderVars, numberVars, notifVars, profileVars, initial_points, ledger>>

\* LoyaltyTransaction.objects.create(...) and the 200 response
redeem_record(r) ==
    /\ reqs[r].pc = "saved"
    /\ ledger' = Append(ledger, LoyaltyTransaction("redeemed", -reqs[r].points))
    /\ reqs' = [reqs EXCEPT ![r].pc = "done", ![r].result = "ok"]
    /\ last' = Resp("redeem", "cust1", 0, 200, "ok")
    /\ UNCHANGED <<orderVars, numberVars, notifVars, profileVars, loyalty_points, initial_points>>

\* add_loyalty_points write by write, one call at a time, for any integer a
\* caller passes.  The profile instance is loaded by the caller
EarnPointInputs == {-20, 0, 20}

earn_load(r, points) ==
    /\ \A q \in Requests : reqs[q].pc \in {"idle", "done"}
    /\ reqs[r].pc = "idle"
    /\ Len(ledger) < MaxLedger
    /\ reqs' = [reqs EXCEPT ![r] = [pc |-> "earn_loaded", points |-> points,
                                    balance |-> loyalty_points, result |-> "none"]]
    /\ last' = Resp("earn_load", "cust1", points, 0, "ok")
    /\ UNCHANGED <<orderVars, numberVars, notifVars, profileVars, loyalty_points, initial_points, ledger>>

\* self.loyalty_points += points; self.save(update_fields=['loyalty_points'])
earn_save(r) ==
    /\ reqs[r].pc = "earn_loaded"
    /\ loyalty_points' = add_loyalty_points(reqs[r].balance, <<>>, reqs[r].points).loyalty_points
    /\ reqs' = [reqs EXCEPT ![r].pc = "earn_saved", ![r].balance = loyalty_points']
    /\ last' = Resp("earn_save", "cust1", reqs[r].points, 0, "ok")
    /\ UNCHANGED <<orderVars, numberVars, notifVars, profileVars, initial_points, ledger>>

\* LoyaltyTransaction.objects.create(type='earned', points=points, ...)
earn_record(r) ==
    /\ reqs[r].pc = "earn_saved"
    /\ ledger' = add_loyalty_points(reqs[r].balance, ledger, reqs[r].points).ledger
    /\ reqs' = [reqs EXCEPT ![r].pc = "done", ![r].result = "ok"]
    /\ last' = Resp("earn", "cust1", reqs[r].points, 0, "ok")
    /\ UNCHANGED <<orderVars, numberVars, notifVars, profileVars, loyalty_points, initial_points>>

\* the process dies, or the INSERT fails, after the call has started: no
\* transaction surrounds the two writes, so what was written stays
earn_crash(r) ==
    /\ reqs[r].pc \in {"earn_loaded", "earn_saved"}
    /\ reqs' = [reqs EXCEPT ![r].pc = "done",
                            ![r].result = IF reqs[r].pc = "earn_saved" THEN "crashed_after_save"
                                          ELSE "crashed_before_save"]
    /\ last' = Resp("earn_crash", "cust1", reqs[r].points, 0, "crashed")
    /\ UNCHANGED <<orderVars, numberVars, notifVars, profileVars, loyalty_points, initial_points, ledger>>

(***************************************************************************)
(* Overlapping requests on one order.  Each request keeps the Order        *)
(* instance it loaded; Order.save() without update_fields writes every     *)
(* column of the row from that instance.  The steps are the queries of a   *)
(* request, each committed on its own (autocommit).                        *)
(***************************************************************************)
\* a request that has not started, and the Order instance of a request
\* that has loaded none
NoInstance == NewOrder("none", NoShop, "none")
IdleRequest ==
    [pc |-> "idle", op |-> "none", user |-> "none", order |-> 0, instance |-> NoInstance,
     sp |-> "none", quantity |-> 0, item |-> 0, status |-> "none", old_status |-> "none",
     round |-> 0, code |-> 0]

\* the response of request r
Done(req, code) == [req EXCEPT !.pc = "done", !.code = code]

\* add_order_item up to serializer.is_valid(): the order is loaded with
\* get_object_or_404 and its status and the request data are checked
add_item_load(r, u, o, sp, q) ==
    /\ reqs[r].pc = "idle"
    /\ LET req == [reqs[r] EXCEPT !.op = "add_item", !.user = u, !.order = o, !.sp = sp, !.quantity = q]
       IN IF ~VisibleOrder(u, o)
          THEN /\ reqs' = [reqs EXCEPT ![r] = Done(req, 404)]
               /\ last' = Resp("add_item", u, o, 404, "not_found")
          ELSE IF orders[o].status \notin MutableStatuses
          THEN /\ reqs' = [reqs EXCEPT ![r] = Done(req, 400)]
               /\ last' = Resp("add_item", u, o, 400, "invalid_state")
          ELSE IF validate_service_price_id(u, sp) /\ QuantityFieldValid(q)
          THEN /\ reqs' = [reqs EXCEPT ![r] = [req EXCEPT !.pc = "valid", !.instance = orders[o]]]
               /\ last' = Resp("add_item_load", u, o, 0, "ok")
          ELSE /\ reqs' = [reqs EXCEPT ![r] = Done(req, 400)]
               /\ last' = Resp("add_item", u, o, 400, "validation")
    /\ UNCHANGED <<orderVars, numberVars, notifVars, profileVars, loyalty_points, initial_points, ledger>>

\* serializer.save(order=order) as far as super().save() of OrderItem.save:
\* the INSERT of the item row
add_item_insert(r) ==
    /\ reqs[r].pc = "valid" /\ reqs[r].op = "add_item"
    /\ Cardinality(DOMAIN items) < MaxItems
    /\ LET i == FreshId(items, ItemIds)
       IN /\ items' = ItemsAfterSave(items, i, NewItem(reqs[r].order, reqs[r].sp, reqs[r].quantity))
          /\ reqs' = [reqs EXCEPT ![r].pc = "changed", ![r].item = i, ![r].round = 1]
    /\ last' = Resp("add_item_insert", reqs[r].user, reqs[r].order, 0, "ok")
    /\ UNCHANGED <<orders, history, price, clock, numberVars, notifVars, profileVars,
                   loyalty_points, initial_points, ledger>>

\* remove_order_item up to get_object_or_404(OrderItem, ...)
remove_item_load(r, u, o, i) ==
    /\ reqs[r].pc = "idle"
    /\ LET req == [reqs[r] EXCEPT !.op = "remove_item", !.user = u, !.order = o, !.item = i]
       IN IF ~VisibleOrder(u, o)
          THEN /\ reqs' = [reqs EXCEPT ![r] = Done(req, 404)]
               /\ last' = Resp("remove_item", u, o, 404, "not_found")
          ELSE IF orders[o].status \notin MutableStatuses
          THEN /\ reqs' = [reqs EXCEPT ![r] = Done(req, 400)]
               /\ last' = Resp("remove_item", u, o, 400, "invalid_state")
          ELSE IF ~(i \in DOMAIN items /\ items[i].order = o)
          THEN /\ reqs' = [reqs EXCEPT ![r] = Done(req, 404)]
               /\ last' = Resp("remove_item", u, o, 404, "not_found")
          ELSE /\ reqs' = [reqs EXCEPT ![r] = [req EXCEPT !.pc = "valid", !.instance = orders[o]]]
               /\ last' = Resp("remove_item_load", u, o, 0, "ok")
    /\ UNCHANGED <<orderVars, numberVars, notifVars, profileVars, loyalty_points, initial_points, ledger>>

\* item.delete(): the DELETE of the item row (no row is left to delete when
\* another request removed it first); one calculate_total follows
remove_item_delete(r) ==
    /\ reqs[r].pc = "valid" /\ reqs[r].op = "remove_item"
    /\ items' = IF reqs[r].item \in DOMAIN items THEN Without(items, reqs[r].item) ELSE items
    /\ reqs' = [reqs EXCEPT ![r].pc = "changed", ![r].round = 2]
    /\ last' = Resp("remove_item_delete", reqs[r].user, reqs[r].order, 0, "ok")
    /\ UNCHANGED <<orders, history, price, clock, numberVars, notifVars, profileVars,
                   loyalty_points, initial_points, ledger>>

\* Order.calculate_total, first half: the SELECT over self.items.all() and
\* the two assignments on the request's Order instance
calculate_total_read(r) ==
    /\ reqs[r].pc = "changed"
    /\ LET sub == SumTotal(items, ItemsOf(items, reqs[r].order))
       IN reqs' = [reqs EXCEPT ![r].pc = "summed",
                               ![r].instance = [@ EXCEPT !.subtotal = sub, !.total_amount = sub]]
    /\ last' = Resp("calculate_total_read", reqs[r].user, reqs[r].order, 0, "ok")
    /\ UNCHANGED <<orderVars, numberVars, notifVars, profileVars, loyalty_points, initial_points, ledger>>

\* Order.calculate_total, second half: self.save() writes the row from the
\* instance.  An added item runs calculate_total twice (OrderItem.save, then
\* the view), a removed one once; after the last one the view responds
calculate_total_save(r) ==
    /\ reqs[r].pc = "summed"
    /\ orders' = [orders EXCEPT ![reqs[r].order] = reqs[r].instance]
    /\ IF reqs[r].round = 1
       THEN /\ reqs' = [reqs EXCEPT ![r].pc = "changed", ![r].round = 2]
            /\ last' = Resp("calculate_total_save", reqs[r].user, reqs[r].order, 0, "ok")
       ELSE LET code == IF reqs[r].op = "add_item" THEN 201 ELSE 204
            IN /\ reqs' = [reqs EXCEPT ![r] = Done(@, code)]
               /\ last' = Resp(reqs[r].op, reqs[r].user, reqs[r].order, code, "ok")
    /\ UNCHANGED <<items, history, price, clock, numberVars, notifVars, profileVars,
                   loyalty_points, initial_points, ledger>>

\* OrderStatusUpdateView up to serializer.is_valid(): permission, the
\* lookup in get_queryset and the choice validation of the status field
status_load(r, u, o, st) ==
    /\ reqs[r].pc = "idle"
    /\ clock <= MaxClock
    /\ LET req == [reqs[r] EXCEPT !.op = "update_status", !.user = u, !.order = o, !.status = st]
       IN IF ~CanUpdateOrders(u)
          THEN /\ reqs' = [reqs EXCEPT ![r] = Done(req, 403)]
               /\ last' = Resp("update_status", u, o, 403, "forbidden")
          ELSE IF ~StatusQueryset(u, o)
          THEN /\ reqs' = [reqs EXCEPT ![r] = Done(req, 404)]
               /\ last' = Resp("update_status", u, o, 404, "not_found")
          ELSE IF st \notin STATUS_CHOICES \cup {NoStatus}
          THEN /\ reqs' = [reqs EXCEPT ![r] = Done(req, 400)]
               /\ last' = Resp("update_status", u, o, 400, "validation")
          ELSE /\ reqs' = [reqs EXCEPT ![r] = [req EXCEPT !.pc = "loaded", !.instance = orders[o],
                                                           !.old_status = orders[o].status]]
               /\ last' = Resp("status_load", u, o, 0, "ok")
    /\ UNCHANGED <<orderVars, numberVars, notifVars, profileVars, loyalty_points, initial_points, ledger>>

\* OrderStatusUpdateSerializer.update, super().update(...): the status is
\* set on the instance and instance.save() writes the row; without a change
\* of status the request ends here
status_save(r) ==
    /\ reqs[r].pc = "loaded"
    /\ LET new_status == IF reqs[r].status = NoStatus THEN reqs[r].old_status ELSE reqs[r].status
           instance == [reqs[r].instance EXCEPT !.status = new_status]
       IN /\ orders' = [orders EXCEPT ![reqs[r].order] = instance]
          /\ IF reqs[r].old_status # new_status
             THEN /\ reqs' = [reqs EXCEPT ![r].pc = "status_saved", ![r].instance = instance,
                                          ![r].status = new_status]
                  /\ last' = Resp("status_save", reqs[r].user, reqs[r].order, 0, "ok")
             ELSE /\ reqs' = [reqs EXCEPT ![r] = Done([@ EXCEPT !.instance = instance], 200)]
                  /\ last' = Resp("update_status", reqs[r].user, reqs[r].order, 200, "ok")
    /\ UNCHANGED <<items, history, price, clock, numberVars, notifVars, profileVars,
                   loyalty_points, initial_points, ledger>>

\* OrderStatusHistory.objects.create(order, status=new_status, changed_by)
status_history(r) ==
    /\ reqs[r].pc = "status_saved"
    /\ history' = [history EXCEPT ![reqs[r].order] =
                     Append(@, [status |-> reqs[r].status, changed_by |-> reqs[r].user,
                                changed_at |-> clock])]
    /\ clock' = clock + 1
    /\ reqs' = [reqs EXCEPT ![r].pc = "logged"]
    /\ last' = Resp("status_history", reqs[r].user, reqs[r].order, 0, "ok")
    /\ UNCHANGED <<orders, items, price, numberVars, notifVars, profileVars,
                   loyalty_points, initial_points, ledger>>

\* the timestamp for confirmed or completed is set on the instance and
\* instance.save() writes the row a second time; the view responds
status_stamp(r) ==
    /\ reqs[r].pc = "logged"
    /\ LET instance == [reqs[r].instance EXCEPT
                          !.confirmed_at = IF reqs[r].status = "confirmed" THEN clock ELSE @,
                          !.completed_at = IF reqs[r].status = "completed" THEN clock ELSE @]
       IN /\ orders' = [orders EXCEPT ![reqs[r].order] = instance]
          /\ reqs' = [reqs EXCEPT ![r] = Done([@ EXCEPT !.instance = instance], 200)]
    /\ last' = Resp("update_status", reqs[r].user, reqs[r].order, 200, "ok")
    /\ UNCHANGED <<items, history, price, clock, numberVars, notifVars, profileVars,
                   loyalty_points, initial_points, ledger>>

(***************************************************************************)
(* Order numbers: the order_number column of the Order rows and the        *)
(* numbering of Order.save.  A number is a string; it is kept here as the  *)
(* tuple of its parts, <<>> being the blank default.                       *)
(***************************************************************************)
\* str(int(time.time() * 1000000))[-10:], the last ten digits of the
\* microsecond clock: they come round again every 10^10 microseconds and
\* two workers can read the same microsecond, so a save can see any value
Timestamps == 0..MaxTimestamp

\* random.randint(10, 99)
RandomSuffixLow == 10
RandomSuffixes == RandomSuffixLow..(RandomSuffixLow + MaxSuffix)

BlankNumber == <<>>

\* f"{self.shop.id}{timestamp}{random_suffix}": timestamp and suffix have a
\* fixed width, so the string determines its three parts
GeneratedNumber(shop, timestamp, random_suffix) == <<shop, timestamp, random_suffix>>

\* the numbers a caller passes to Order.objects.create: none, the strings of
\* the tests, or a string equal to one the generator can produce
CustomNumbers ==
    {BlankNumber, <<"CUSTOM123">>, <<"DUPLICATE123">>, GeneratedNumber("s1", 0, RandomSuffixLow)}

\* a column without the unique constraint
UniqueViolationOff(tbl, o, n) == FALSE

\* unique=True on order_number: the write of number n for row o is refused
\* (IntegrityError) when another row holds n
UniqueViolation(tbl, o, n) == \E j \in DOMAIN tbl \ {o} : tbl[j].value = n

\* Order.save on the instance of row o whose order_number attribute is
\* number: a blank number is generated once, then the row is written
OrderSave(tbl, o, shop, number, timestamp, random_suffix) ==
    LET n == IF number = BlankNumber
             THEN GeneratedNumber(shop, timestamp, random_suffix)
             ELSE number
    IN IF UniqueViolation(tbl, o, n)
       THEN [order_number |-> tbl, ok |-> FALSE]
       ELSE [order_number |-> [j \in DOMAIN tbl \cup {o} |->
                                 IF j = o THEN [shop |-> shop, value |-> n] ELSE tbl[j]],
             ok |-> TRUE]

\* Order.objects.create(shop=..., order_number=number) or, with the blank
\* number, Order.objects.create(shop=...); nothing catches the IntegrityError
create_numbered_order(shop, number, timestamp, random_suffix) ==
    /\ LET full == Cardinality(DOMAIN order_number) >= MaxOrders
           o == IF full THEN 0 ELSE FreshId(order_number, OrderIds)
           res == OrderSave(order_number, o, shop, number, timestamp, random_suffix)
           op == IF number = BlankNumber THEN "create_generated" ELSE "create_numbered"
       IN /\ res.ok => ~full
          /\ order_number' = res.order_number
          /\ last' = IF res.ok THEN Resp(op, "none", o, 201, "ok")
                     ELSE Resp(op, "none", o, 500, "IntegrityError")
    /\ UNCHANGED <<orderVars, loyaltyVars, notifVars>>

\* a later Order.save of a stored order (calculate_total, the status
\* serializer): the instance carries the number the row was loaded with
save_numbered_order(o, timestamp, random_suffix) ==
    /\ o \in DOMAIN order_number
    /\ LET res == OrderSave(order_number, o, order_number[o].shop, order_number[o].value,
                           timestamp, random_suffix)
       IN /\ order_number' = res.order_number
          /\ last' = IF res.ok THEN Resp("save_order", "none", o, 0, "ok")
                     ELSE Resp("save_order", "none", o, 500, "IntegrityError")
    /\ UNCHANGED <<orderVars, loyaltyVars, notifVars>>

(***************************************************************************)
(* Notifications: the Notification, NotificationPreference and             *)
(* NotificationBatch rows and NotificationService.  Times are counted in   *)
(* days of the clock; 0 stands for a null timestamp.                       *)
(***************************************************************************)
\* users that receive notifications
Recipients == {"cust1", "staff1"}

\* NotificationTemplate rows by name, their type and is_active
TemplateNames == {"order_status_update", "order_status_update_shop", "promo", "welcome_msg", "retired"}
NoTemplate == "none"
template_type(t) ==
    CASE t = "order_status_update" -> "order_status"
      [] t = "order_status_update_shop" -> "order_status"
      [] t = "welcome_msg" -> "welcome"
      [] OTHER -> "promotion"
template_is_active(t) == t # "retired"

\* the names a caller can pass: those of the rows and one of no row
TemplateInputs == TemplateNames \cup {"missing"}

\* NotificationTemplate.objects.get(name=template_name, is_active=True) finds a row
ActiveTemplate(name) == name \in TemplateNames /\ template_is_active(name)

NotificationIds == 1..MaxNotifications
BatchIds == 1..MaxBatches
NoExpiry == 0

\* the preference row of a user is kept as the set of switched-off fields
PreferenceFields ==
    {"order_notifications", "loyalty_notifications", "promotion_notifications",
     "reminder_notifications", "system_notifications"}

\* type_mapping of _should_send_notification, for the types that have a field
type_mapping ==
    ("order_status" :> "order_notifications") @@ ("loyalty_points" :> "loyalty_notifications") @@
    ("promotion" :> "promotion_notifications") @@ ("reminder" :> "reminder_notifications") @@
    ("system" :> "system_notifications")

\* a check that lets every type through
should_send_notification_always(disabled, notification_type) == TRUE

\* NotificationService._should_send_notification: welcome and unknown
\* types are always sent
should_send_notification(disabled, notification_type) ==
    IF notification_type \in DOMAIN type_mapping
    THEN type_mapping[notification_type] \notin disabled
    ELSE TRUE

\* NotificationService.get_user_preferences: get_or_create with every
\* field switched on; the table after the call
get_user_preferences(prf, user) ==
    IF user \in DOMAIN prf THEN prf
    ELSE [u \in DOMAIN prf \cup {user} |-> IF u = user THEN {} ELSE prf[u]]

\* Notification.objects.create(...): status default 'unread', created_at now
NewNotification(recipient, template, now, expires_at) ==
    [recipient |-> recipient, template |-> template, status |-> "unread",
     created_at |-> now, read_at |-> 0, expires_at |-> expires_at]

\* NotificationService.create_notification.  data_ok tells whether the data
\* dictionary can be stored in the JSONField; if not, the INSERT raises and
\* the except clause returns None.  created: a row was written; raised: an
\* exception was caught during the INSERT; full: no row identifier is left
CreateNotification(ntf, prf, recipient, template, data_ok, now, expires_at) ==
    LET prf2 == get_user_preferences(prf, recipient)
        send == \/ template = NoTemplate
                \/ should_send_notification(prf2[recipient], template_type(template))
        full == Cardinality(DOMAIN ntf) >= MaxNotifications
    IN IF ~send
       THEN [notifications |-> ntf, prefs |-> prf2, created |-> FALSE, raised |-> FALSE, full |-> FALSE]
       ELSE IF ~data_ok
       THEN [notifications |-> ntf, prefs |-> prf2, created |-> FALSE, raised |-> TRUE, full |-> FALSE]
       ELSE IF full
       THEN [notifications |-> ntf, prefs |-> prf2, created |-> FALSE, raised |-> FALSE, full |-> TRUE]
       ELSE LET n == FreshId(ntf, NotificationIds)
            IN [notifications |-> [j \in DOMAIN ntf \cup {n} |->
                                     IF j = n THEN NewNotification(recipient, template, now, expires_at)
                                     ELSE ntf[j]],
                prefs |-> prf2, created |-> TRUE, raised |-> FALSE, full |-> FALSE]

\* a call of NotificationService.create_notification; the result is the
\* new notification or None ("null")
create_notification(recipient, template, data_ok, expires_at) ==
    /\ LET res == CreateNotification(notifications, prefs, recipient, template, data_ok, clock, expires_at)
       IN /\ ~res.full
          /\ notifications' = res.notifications
          /\ prefs' = res.prefs
          /\ last' = Resp("create_notification", recipient,
                          [recipient |-> recipient, template |-> template],
                          0, IF res.created THEN "created" ELSE "null")
    /\ UNCHANGED <<orderVars, loyaltyVars, numberVars, batches>>

\* NotificationService.create_from_template
create_from_template(template_name, recipient, data_ok) ==
    /\ IF ~ActiveTemplate(template_name)
       THEN /\ last' = Resp("create_from_template", recipient,
                            [name |-> template_name, batch |-> 0], 0, "null")
            /\ UNCHANGED <<notifications, prefs>>
       ELSE LET res == CreateNotification(notifications, prefs, recipient, template_name,
                                          data_ok, clock, NoExpiry)
            IN /\ ~res.full
               /\ notifications' = res.notifications
               /\ prefs' = res.prefs
               /\ last' = Resp("create_from_template", recipient,
                               [name |-> template_name, batch |-> 0],
                               0, IF res.created THEN "created" ELSE "null")
    /\ UNCHANGED <<orderVars, loyaltyVars, numberVars, batches>>

\* NotificationService.create_from_template as a function of the tables:
\* None without a write when no active template has the name
CreateFromTemplate(ntf, prf, template_name, recipient, data_ok, now) ==
    IF ~ActiveTemplate(template_name)
    THEN [notifications |-> ntf, prefs |-> prf, created |-> FALSE, raised |-> FALSE, full |-> FALSE]
    ELSE CreateNotification(ntf, prf, recipient, template_name, data_ok, now, NoExpiry)

\* Shop.owner of the shop whose orders the model follows
ShopOwner(shop) == IF shop = "s1" THEN "owner1" ELSE "none"

\* context_data of notify_order_status_change holds the Order instance
\* under 'order'; create_from_template passes the dictionary on as data, and
\* a model instance cannot be stored in the JSONField
OrderContextDataStorable == FALSE

\* the statuses notify_order_status_change tells the shop owner about
OwnerNotifiedStatuses == {"ready_for_pickup", "completed"}

\* OrderNotificationService.notify_order_status_change
notify_order_status_change(o, old_status, new_status) ==
    /\ o \in DOMAIN orders
    /\ LET customer == CreateFromTemplate(notifications, prefs, "order_status_update",
                                          orders[o].customer, OrderContextDataStorable, clock)
           owner == IF new_status \in OwnerNotifiedStatuses
                    THEN CreateFromTemplate(customer.notifications, customer.prefs,
                                            "order_status_update_shop", ShopOwner(orders[o].shop),
                                            OrderContextDataStorable, clock)
                    ELSE [customer EXCEPT !.created = FALSE]
       IN /\ ~customer.full /\ ~owner.full
          /\ notifications' = owner.notifications
          /\ prefs' = owner.prefs
          /\ last' = Resp("notify_order_status_change", "none", o, 0,
                          IF customer.created /\ owner.created THEN "both"
                          ELSE IF customer.created THEN "customer"
                          ELSE IF owner.created THEN "owner" ELSE "none")
    /\ UNCHANGED <<orderVars, loyaltyVars, numberVars, batches>>

\* the recipient lists a caller can pass
RecipientLists == UNION {[1..n -> Recipients] : n \in 0..MaxRecipients}
Range(seq) == {seq[k] : k \in DOMAIN seq}

\* list(queryset): the rows of a set of users in some fixed order
RECURSIVE ListOf(_)
ListOf(S) ==
    IF S = {} THEN <<>>
    ELSE LET u == CHOOSE x \in S : TRUE IN <<u>> \o ListOf(S \ {u})

\* NotificationBatch.objects.create(...) followed by target_users.set(recipients)
NewBatch(template, recipients, created_by) ==
    [template |-> template, target_users |-> Range(recipients), created_by |-> created_by,
     is_sent |-> FALSE, sent_count |-> 0, failed_count |-> 0, sent_at |-> 0]

\* the loop of create_batch_notifications inside transaction.atomic().
\* broken: an exception was raised during an INSERT of the block, which
\* marks the transaction for rollback; every later query of the block then
\* raises, which create_notification's except clause turns into None
RECURSIVE SendBatch(_, _, _, _, _)
SendBatch(acc, recipients, template, data_ok, now) ==
    IF recipients = <<>> THEN acc
    ELSE LET res == IF acc.broken
                    THEN [notifications |-> acc.notifications, prefs |-> acc.prefs,
                          created |-> FALSE, raised |-> TRUE, full |-> FALSE]
                    ELSE CreateNotification(acc.notifications, acc.prefs, Head(recipients),
                                            template, data_ok, now, NoExpiry)
             next == [notifications |-> res.notifications,
                      prefs |-> res.prefs,
                      sent_count |-> IF res.created THEN acc.sent_count + 1 ELSE acc.sent_count,
                      failed_count |-> IF res.created THEN acc.failed_count ELSE acc.failed_count + 1,
                      broken |-> acc.broken \/ res.raised,
                      full |-> acc.full \/ res.full]
         IN SendBatch(next, Tail(recipients), template, data_ok, now)

\* NotificationService.create_batch_notifications.  result is "null" (no
\* active template), "batch" (the batch is returned) or "raised": batch.save()
\* inside a transaction marked for rollback raises, the block is rolled
\* back and the exception leaves the call; the batch row, written before
\* the block, stays as it was created
CreateBatchNotifications(bts, ntf, prf, template_name, recipients, created_by, data_ok, now) ==
    IF ~ActiveTemplate(template_name)
    THEN [batches |-> bts, notifications |-> ntf, prefs |-> prf, result |-> "null",
          batch |-> 0, full |-> FALSE]
    ELSE IF Cardinality(DOMAIN bts) >= MaxBatches
    THEN [batches |-> bts, notifications |-> ntf, prefs |-> prf, result |-> "null",
          batch |-> 0, full |-> TRUE]
    ELSE LET b == FreshId(bts, BatchIds)
             row == NewBatch(template_name, recipients, created_by)
             done == SendBatch([notifications |-> ntf, prefs |-> prf, sent_count |-> 0,
                                failed_count |-> 0, broken |-> FALSE, full |-> FALSE],
                               recipients, template_name, data_ok, now)
             sent == [row EXCEPT !.is_sent = TRUE, !.sent_count = done.sent_count,
                                 !.failed_count = done.failed_count, !.sent_at = now]
         IN IF done.broken
            THEN [batches |-> [j \in DOMAIN bts \cup {b} |-> IF j = b THEN row ELSE bts[j]],
                  notifications |-> ntf, prefs |-> prf, result |-> "raised",
                  batch |-> b, full |-> done.full]
            ELSE [batches |-> [j \in DOMAIN bts \cup {b} |-> IF j = b THEN sent ELSE bts[j]],
                  notifications |-> done.notifications, prefs |-> done.prefs, result |-> "batch",
                  batch |-> b, full |-> done.full]

\* a call of NotificationService.create_batch_notifications
create_batch_notifications(template_name, recipients, created_by, data_ok) ==
    /\ LET res == CreateBatchNotifications(batches, notifications, prefs, template_name,
                                           recipients, created_by, data_ok, clock)
       IN /\ ~res.full
          /\ batches' = res.batches
          /\ notifications' = res.notifications
          /\ prefs' = res.prefs
          /\ last' = Resp("create_batch_notifications", created_by,
                          [name |-> template_name, batch |-> res.batch],
                          0, res.result)
    /\ UNCHANGED <<orderVars, loyaltyVars, numberVars>>

\* The same call as the database sees it, write by write.  The batch row
\* and its target users are written in autocommit mode; the notification
\* rows, the preference rows of get_or_create and the final batch.save() are
\* written inside transaction.atomic() and become visible at its commit.
\* tx: the tables as the open transaction sees them
Tables(bts, ntf, prf) == [batches |-> bts, notifications |-> ntf, prefs |-> prf]
IdleCall ==
    [pc |-> "idle", template |-> NoTemplate, recipients |-> <<>>, batch |-> 0, data_ok |-> TRUE,
     tx |-> Tables(<<>>, <<>>, <<>>), sent_count |-> 0, failed_count |-> 0, broken |-> FALSE]

\* a rollback that keeps the rows written so far
RollbackKeepsRows(tables, tx) == [tables EXCEPT !.notifications = tx.notifications]

\* leaving transaction.atomic() by an exception, or losing the connection
\* inside it: the database keeps what was committed before the block
Rollback(tables, tx) == tables

\* NotificationBatch.objects.create(...), or None when no active template
\* has the name
batch_insert(template_name, recipients, created_by, data_ok) ==
    /\ reqs[1].pc = "idle"
    /\ IF ~ActiveTemplate(template_name)
       THEN /\ last' = Resp("create_batch_notifications", created_by, 0, 0, "null")
            /\ UNCHANGED <<batches, reqs>>
       ELSE /\ Cardinality(DOMAIN batches) < MaxBatches
            /\ LET b == FreshId(batches, BatchIds)
               IN /\ batches' = [j \in DOMAIN batches \cup {b} |->
                                   IF j = b THEN NewBatch(template_name, <<>>, created_by)
                                   ELSE batches[j]]
                  /\ reqs' = [reqs EXCEPT ![1] = [IdleCall EXCEPT !.pc = "inserted",
                                                    !.template = template_name,
                                                    !.recipients = recipients,
                                                    !.batch = b, !.data_ok = data_ok]]
                  /\ last' = Resp("batch_insert", created_by, b, 0, "ok")
    /\ UNCHANGED <<orderVars, numberVars, profileVars, loyalty_points, initial_points, ledger,
                   notifications, prefs>>

\* batch.target_users.set(recipients), then the atomic block is entered
batch_set_targets ==
    /\ reqs[1].pc = "inserted"
    /\ batches' = [batches EXCEPT ![reqs[1].batch].target_users = Range(reqs[1].recipients)]
    /\ reqs' = [reqs EXCEPT ![1].pc = "in_block",
                            ![1].tx = Tables(batches', notifications, prefs)]
    /\ last' = Resp("batch_set_targets", "none", reqs[1].batch, 0, "ok")
    /\ UNCHANGED <<orderVars, numberVars, profileVars, loyalty_points, initial_points, ledger,
                   notifications, prefs>>

\* one turn of the loop: create_notification for the next recipient,
\* inside the transaction
batch_send ==
    /\ reqs[1].pc = "in_block"
    /\ reqs[1].recipients # <<>>
    /\ LET call == reqs[1]
           res == IF call.broken
                  THEN [notifications |-> call.tx.notifications, prefs |-> call.tx.prefs,
                        created |-> FALSE, raised |-> TRUE, full |-> FALSE]
                  ELSE CreateNotification(call.tx.notifications, call.tx.prefs, Head(call.recipients),
                                          call.template, call.data_ok, clock, NoExpiry)
       IN /\ ~res.full
          /\ reqs' = [reqs EXCEPT ![1] =
                        [call EXCEPT !.recipients = Tail(call.recipients),
                                     !.tx = [@ EXCEPT !.notifications = res.notifications,
                                                      !.prefs = res.prefs],
                                     !.sent_count = IF res.created THEN @ + 1 ELSE @,
                                     !.failed_count = IF res.created THEN @ ELSE @ + 1,
                                     !.broken = @ \/ res.raised]]
    /\ last' = Resp("batch_send", "none", reqs[1].batch, 0, "ok")
    /\ UNCHANGED <<orderVars, numberVars, notifVars, profileVars, loyalty_points, initial_points, ledger>>

\* batch.save() at the end of the block: in a transaction marked for
\* rollback it raises, the block is rolled back and the exception leaves the
\* call
batch_save ==
    /\ reqs[1].pc = "in_block"
    /\ reqs[1].recipients = <<>>
    /\ LET call == reqs[1]
           kept == Rollback(Tables(batches, notifications, prefs), call.tx)
       IN IF call.broken
          THEN /\ batches' = kept.batches
               /\ notifications' = kept.notifications
               /\ prefs' = kept.prefs
               /\ reqs' = [reqs EXCEPT ![1] = IdleCall]
               /\ last' = Resp("create_batch_notifications", "none", call.batch, 0, "raised")
          ELSE /\ reqs' = [reqs EXCEPT ![1].pc = "saved",
                                       ![1].tx.batches[call.batch] =
                                          [@ EXCEPT !.is_sent = TRUE, !.sent_count = call.sent_count,
                                                    !.failed_count = call.failed_count,
                                                    !.sent_at = clock]]
               /\ last' = Resp("batch_save", "none", call.batch, 0, "ok")
               /\ UNCHANGED notifVars
    /\ UNCHANGED <<orderVars, numberVars, profileVars, loyalty_points, initial_points, ledger>>

\* the commit at the end of the atomic block; the batch is returned
batch_commit ==
    /\ reqs[1].pc = "saved"
    /\ batches' = reqs[1].tx.batches
    /\ notifications' = reqs[1].tx.notifications
    /\ prefs' = reqs[1].tx.prefs
    /\ reqs' = [reqs EXCEPT ![1] = IdleCall]
    /\ last' = Resp("create_batch_notifications", "none", reqs[1].batch, 0, "batch")
    /\ UNCHANGED <<orderVars, numberVars, profileVars, loyalty_points, initial_points, ledger>>

\* the process dies, or its connection is lost, between two writes of the
\* call; last.arg is the number of notification rows not yet committed
batch_crash ==
    /\ reqs[1].pc # "idle"
    /\ LET call == reqs[1]
           in_block == call.pc \in {"in_block", "saved"}
           kept == IF in_block THEN Rollback(Tables(batches, notifications, prefs), call.tx)
                   ELSE Tables(batches, notifications, prefs)
       IN /\ batches' = kept.batches
          /\ notifications' = kept.notifications
          /\ prefs' = kept.prefs
          /\ last' = Resp("batch_crash", "none",
                          IF in_block
                          THEN Cardinality(DOMAIN call.tx.notifications \ DOMAIN notifications)
                          ELSE 0,
                          0, call.pc)
    /\ reqs' = [reqs EXCEPT ![1] = IdleCall]
    /\ UNCHANGED <<orderVars, numberVars, profileVars, loyalty_points, initial_points, ledger>>

\* POST /notifications/batch/create/ (CreateBatchNotificationView) with
\* template_name and target_users; context_data is JSON and can be stored
create_batch(u, template_name, target_users) ==
    /\ IF ~(role(u) = "shop_owner" /\ HasShop(u))
       THEN /\ last' = Resp("create_batch", u, [name |-> template_name, batch |-> 0],
                            403, "forbidden")
            /\ UNCHANGED notifVars
       ELSE IF ~ActiveTemplate(template_name)
       THEN \* CreateBatchNotificationSerializer.validate_template_name
            /\ last' = Resp("create_batch", u, [name |-> template_name, batch |-> 0],
                            400, "validation")
            /\ UNCHANGED notifVars
       ELSE IF target_users = {}
       THEN \* request.user.owned_shops: the User model has no such attribute
            /\ last' = Resp("create_batch", u, [name |-> template_name, batch |-> 0],
                            500, "server_error")
            /\ UNCHANGED notifVars
       ELSE LET recipients == ListOf(target_users)
                res == CreateBatchNotifications(batches, notifications, prefs, template_name,
                                                recipients, u, TRUE, clock)
            IN /\ ~res.full
               /\ batches' = res.batches
               /\ notifications' = res.notifications
               /\ prefs' = res.prefs
               /\ last' = Resp("create_batch", u,
                               [name |-> template_name, batch |-> res.batch],
                               IF res.result = "batch" THEN 201
                               ELSE IF res.result = "null" THEN 400 ELSE 500,
                               res.result)
    /\ UNCHANGED <<orderVars, loyaltyVars, numberVars>>

\* the fields a preference request switches in the model
PreferenceInputs == {"order_notifications", "promotion_notifications"}

\* PATCH /notifications/preferences/ (NotificationPreferenceView): the row
\* is fetched with get_user_preferences, then one field is written
update_preferences(u, field, value) ==
    /\ LET prf == get_user_preferences(prefs, u)
       IN prefs' = [prf EXCEPT ![u] = IF value THEN @ \ {field} ELSE @ \cup {field}]
    /\ last' = Resp("update_preferences", u, 0, 200, "ok")
    /\ UNCHANGED <<orderVars, loyaltyVars, numberVars, notifications, batches>>

\* Notification.STATUS_CHOICES and the values an update request can send
NotificationStatuses == {"unread", "read", "archived"}
NotificationStatusInputs == NotificationStatuses \cup {"bogus", NoStatus}

\* a mark_as_read without the test of the current status
mark_as_read_unguarded(row, now) == [row EXCEPT !.status = "read", !.read_at = now]

\* Notification.mark_as_read
mark_as_read(row, now) ==
    IF row.status = "unread" THEN [row EXCEPT !.status = "read", !.read_at = now] ELSE row

\* Notification.mark_as_archived
mark_as_archived(row) == [row EXCEPT !.status = "archived"]

\* NotificationUpdateSerializer: the choices of the model field, then
\* validate_status
validate_status(value) == value \in NotificationStatuses /\ value \in {"read", "archived"}

\* PUT/PATCH /notifications/<pk>/update/ (NotificationUpdateView)
update_notification(u, n, st) ==
    /\ IF ~(n \in DOMAIN notifications /\ notifications[n].recipient = u)
       THEN /\ last' = Resp("update_notification", u, n, 404, "not_found")
            /\ UNCHANGED notifications
       ELSE IF st # NoStatus /\ ~validate_status(st)
       THEN /\ last' = Resp("update_notification", u, n, 400, "validation")
            /\ UNCHANGED notifications
       ELSE /\ notifications' =
                 [notifications EXCEPT ![n] = IF st = "read" THEN mark_as_read(@, clock)
                                              ELSE IF st = "archived" THEN mark_as_archived(@)
                                              ELSE @]
            /\ last' = Resp("update_notification", u, n, 200, "ok")
    /\ UNCHANGED <<orderVars, loyaltyVars, numberVars, prefs, batches>>

\* POST /notifications/mark-all-read/ (NotificationService.mark_all_as_read)
mark_all_as_read(u) ==
    /\ LET unread == {n \in DOMAIN notifications :
                        notifications[n].recipient = u /\ notifications[n].status = "unread"}
       IN /\ notifications' = [n \in DOMAIN notifications |->
                                 IF n \in unread
                                 THEN [notifications[n] EXCEPT !.status = "read", !.read_at = clock]
                                 ELSE notifications[n]]
          /\ last' = Resp("mark_all_as_read", u, Cardinality(unread), 200, "ok")
    /\ UNCHANGED <<orderVars, loyaltyVars, numberVars, prefs, batches>>

\* the filters of cleanup_expired_notifications
expired_filter(row, now) == row.expires_at # NoExpiry /\ row.expires_at < now

\* an age filter that does not look at the status
old_filter_any_status(row, cutoff_date) == row.created_at < cutoff_date

old_filter(row, cutoff_date) ==
    row.created_at < cutoff_date /\ row.status \in {"read", "archived"}

\* NotificationService.cleanup_expired_notifications: count, then delete
cleanup_expired_notifications(days_old) ==
    /\ LET cutoff_date == clock - days_old
           matched == {n \in DOMAIN notifications :
                         \/ expired_filter(notifications[n], clock)
                         \/ old_filter(notifications[n], cutoff_date)}
       IN /\ notifications' = [n \in DOMAIN notifications \ matched |-> notifications[n]]
          /\ last' = Resp("cleanup_expired_notifications", "none", Cardinality(matched), 0, "ok")
    /\ UNCHANGED <<orderVars, loyaltyVars, numberVars, prefs, batches>>

\* a day passes
tick ==
    /\ clock <= MaxClock
    /\ clock' = clock + 1
    /\ last' = Resp("tick", "none", 0, 0, "ok")
    /\ UNCHANGED <<orders, items, history, price, loyaltyVars, numberVars, notifVars>>

Init ==
    /\ orders = <<>>
    /\ items = <<>>
    /\ history = <<>>
    /\ price = [sp \in ServicePrices |-> 1]
    /\ clock = 1
    /\ last = Resp("none", "none", 0, 0, "none")
    /\ loyalty_points = 0
    /\ initial_points = 0
    /\ ledger = <<>>
    /\ reqs = <<>>
    /\ total_spent = 0
    /\ membership_tier = "bronze"
    /\ order_number = <<>>
    /\ notifications = <<>>
    /\ prefs = <<>>
    /\ batches = <<>>

\* the customer profile starts with some balance and an empty ledger
InitLoyalty ==
    /\ orders = <<>>
    /\ items = <<>>
    /\ history = <<>>
    /\ price = [sp \in ServicePrices |-> 1]
    /\ clock = 1
    /\ last = Resp("none", "none", 0, 0, "none")
    /\ loyalty_points \in InitialBalances
    /\ initial_points = loyalty_points
    /\ ledger = <<>>
    /\ reqs = [r \in Requests |-> [pc |-> "idle", points |-> 0, balance |-> 0, result |-> "none"]]
    /\ total_spent = 0
    /\ membership_tier = "bronze"
    /\ order_number = <<>>
    /\ notifications = <<>>
    /\ prefs = <<>>
    /\ batches = <<>>

\* no request has started
InitRequests ==
    /\ orders = <<>>
    /\ items = <<>>
    /\ history = <<>>
    /\ price = [sp \in ServicePrices |-> 1]
    /\ clock = 1
    /\ last = Resp("none", "none", 0, 0, "none")
    /\ loyalty_points = 0
    /\ initial_points = 0
    /\ ledger = <<>>
    /\ reqs = [r \in Requests |-> IdleRequest]
    /\ total_spent = 0
    /\ membership_tier = "bronze"
    /\ order_number = <<>>
    /\ notifications = <<>>
    /\ prefs = <<>>
    /\ batches = <<>>

\* no batch call has started
InitBatchCall ==
    /\ orders = <<>>
    /\ items = <<>>
    /\ history = <<>>
    /\ price = [sp \in ServicePrices |-> 1]
    /\ clock = 1
    /\ last = Resp("none", "none", 0, 0, "none")
    /\ loyalty_points = 0
    /\ initial_points = 0
    /\ ledger = <<>>
    /\ reqs = <<IdleCall>>
    /\ total_spent = 0
    /\ membership_tier = "bronze"
    /\ order_number = <<>>
    /\ notifications = <<>>
    /\ prefs = <<>>
    /\ batches = <<>>

\* the requests of the orders API
NextApi ==
    \/ \E u \in Users, l \in ItemLists : create_order(u, l)
    \/ \E u \in Users, o \in OrderIds, sp \in ServicePrices, q \in Quantities : add_order_item(u, o, sp, q)
    \/ \E u \in Users, o \in OrderIds, i \in ItemIds : remove_order_item(u, o, i)
    \/ \E u \in Users, o \in OrderIds, st \in StatusInputs : update_order_status(u, o, st)
    \/ \E u \in Users, o \in OrderIds, st \in StatusInputs : update_order(u, o, st)

Spec == Init /\ [][NextApi]_vars

\* the item requests of the API together with the writes the model layer
\* itself offers: orders stored with any status, price changes, item saves
NextItems ==
    \/ \E u \in Users, l \in ItemLists : create_order(u, l)
    \/ \E u \in Users, o \in OrderIds, sp \in ServicePrices, q \in Quantities : add_order_item(u, o, sp, q)
    \/ \E u \in Users, o \in OrderIds, i \in ItemIds : remove_order_item(u, o, i)
    \/ \E u \in Customers, sh \in OrderShops, st \in STATUS_CHOICES \cup MutableStatuses : store_order(u, sh, st)
    \/ \E sp \in ServicePrices, p \in Prices : set_price(sp, p)
    \/ \E i \in ItemIds : resave_item(i)

SpecItems == Init /\ [][NextItems]_vars

\* create and add requests with any integer quantity, on orders created
\* through the API and on stored orders the item view accepts
NextQuantity ==
    \/ \E u \in Users, l \in ItemListsAnyQuantity : create_order(u, l)
    \/ \E u \in Users, o \in OrderIds, sp \in ServicePrices, q \in QuantityInputs : add_order_item(u, o, sp, q)
    \/ \E u \in Customers, sh \in OrderShops, st \in MutableStatuses : store_order(u, sh, st)

SpecQuantity == Init /\ [][NextQuantity]_vars

\* earn and redeem calls, one at a time
NextLoyalty ==
    \/ \E p \in EarnInputs : earn(p)
    \/ \E p \in RedeemInputs : redeem(p)

SpecLoyalty == InitLoyalty /\ [][NextLoyalty]_vars

\* overlapping redeem requests of one customer
NextRedeem ==
    \/ \E r \in Requests, p \in RedeemInputs : redeem_load(r, p)
    \/ \E r \in Requests : redeem_save(r)
    \/ \E r \in Requests : redeem_record(r)

SpecRedeem == InitLoyalty /\ [][NextRedeem]_vars

\* the statuses sent on the way to completion
CompletionInputs == {"in_progress", "completed"}

\* orders with priced items taken through their statuses by the status
\* endpoint; the loyalty variables are the profile of the orders' customer
NextComplete ==
    \/ \E sp \in OrderShopPrices, p \in UnitPrices : set_price(sp, p)
    \/ \E u \in Users, l \in ItemLists : create_order(u, l)
    \/ \E u \in Users, o \in OrderIds, st \in CompletionInputs : update_order_status(u, o, st)

SpecComplete == Init /\ [][NextComplete]_vars

\* calls of NotificationService.create_notification with and without a
\* template, between changes of the recipients' preferences
NextNotify ==
    \/ \E u \in Recipients, f \in PreferenceInputs, v \in BOOLEAN : update_preferences(u, f, v)
    \/ \E r \in Recipients, t \in TemplateNames \cup {NoTemplate}, d \in BOOLEAN :
          create_notification(r, t, d, NoExpiry)

SpecNotify == Init /\ [][NextNotify]_vars

\* the template names and the preference field of the promotion batches
BatchTemplateInputs == {"promo", "welcome_msg", "retired", "missing"}
BatchPreferenceInputs == {"promotion_notifications"}

\* notifications made from a template by name, one at a time and in
\* batches, through the service and through the batch endpoint
NextBatch ==
    \/ \E u \in Recipients, f \in BatchPreferenceInputs, v \in BOOLEAN : update_preferences(u, f, v)
    \/ \E n \in BatchTemplateInputs, r \in Recipients, d \in BOOLEAN : create_from_template(n, r, d)
    \/ \E n \in BatchTemplateInputs, l \in RecipientLists, d \in BOOLEAN :
          create_batch_notifications(n, l, "owner1", d)
    \/ \E u \in Users, n \in BatchTemplateInputs, S \in SUBSET Recipients : create_batch(u, n, S)

SpecBatch == Init /\ [][NextBatch]_vars

\* the inbox of one user over the days: notifications with and without an
\* expiry date, status updates by the users, and the cleanup
InboxRecipients == {"cust1"}
ExpiryInputs == {NoExpiry, MaxClock}
DaysOldInputs == 0..MaxDaysOld

NextInbox ==
    \/ \E r \in InboxRecipients, e \in ExpiryInputs : create_notification(r, NoTemplate, TRUE, e)
    \/ \E u \in Users, n \in NotificationIds, st \in NotificationStatusInputs : update_notification(u, n, st)
    \/ \E u \in Users : mark_all_as_read(u)
    \/ \E d \in DaysOldInputs : cleanup_expired_notifications(d)
    \/ tick

SpecInbox == Init /\ [][NextInbox]_vars

\* orders created with and without a number, and saved again
NextNumbers ==
    \/ \E sh \in Shops, n \in CustomNumbers, t \in Timestamps, r \in RandomSuffixes :
          create_numbered_order(sh, n, t, r)
    \/ \E o \in OrderIds, t \in Timestamps, r \in RandomSuffixes : save_numbered_order(o, t, r)

SpecNumbers == Init /\ [][NextNumbers]_vars

\* the profile of one customer: its spend and tier written by model-layer
\* code, the tier recomputed by update_membership_tier
NextTier ==
    \/ \E s \in SpentInputs : store_total_spent(s)
    \/ \E t \in TIER_CHOICES : store_membership_tier(t)
    \/ call_update_membership_tier

SpecTier == InitLoyalty /\ [][NextTier]_vars

\* overlapping add requests of the customer on stored orders the item
\* view accepts
NextAddRace ==
    \/ \E u \in Customers, sh \in OrderShops, st \in MutableStatuses : store_order(u, sh, st)
    \/ \E r \in Requests, u \in Customers, o \in OrderIds, sp \in OrderShopPrices, q \in Quantities :
          add_item_load(r, u, o, sp, q)
    \/ \E r \in Requests : add_item_insert(r)
    \/ \E r \in Requests : calculate_total_read(r)
    \/ \E r \in Requests : calculate_total_save(r)

SpecAddRace == InitRequests /\ [][NextAddRace]_vars

\* the two endpoints that take a status, on orders created without items
EmptyItemLists == {<<>>}

NextStatus ==
    \/ \E u \in Users, l \in EmptyItemLists : create_order(u, l)
    \/ \E u \in Users, o \in OrderIds, st \in StatusInputs : update_order_status(u, o, st)
    \/ \E u \in Users, o \in OrderIds, st \in StatusInputs : update_order(u, o, st)

SpecStatus == Init /\ [][NextStatus]_vars

\* stored orders of any status and calls of notify_order_status_change
\* for them
NextOrderNotify ==
    \/ \E u \in Customers, sh \in OrderShops, st \in STATUS_CHOICES : store_order(u, sh, st)
    \/ \E o \in OrderIds, old \in STATUS_CHOICES, new \in STATUS_CHOICES :
          notify_order_status_change(o, old, new)

SpecOrderNotify == Init /\ [][NextOrderNotify]_vars

\* a batch call taken write by write, with a crash possible between any
\* two writes
NextBatchCrash ==
    \/ \E n \in BatchTemplateInputs, l \in RecipientLists, d \in BOOLEAN :
          batch_insert(n, l, "owner1", d)
    \/ batch_set_targets
    \/ batch_send
    \/ batch_save
    \/ batch_commit
    \/ batch_crash

SpecBatchCrash == InitBatchCall /\ [][NextBatchCrash]_vars

\* earn calls taken write by write, with a failure possible between the
\* writes
NextEarnCrash ==
    \/ \E r \in Requests, p \in EarnPointInputs : earn_load(r, p)
    \/ \E r \in Requests : earn_save(r)
    \/ \E r \in Requests : earn_record(r)
    \/ \E r \in Requests : earn_crash(r)

SpecEarnCrash == InitLoyalty /\ [][NextEarnCrash]_vars

\* the statuses the overlapping status requests send, and the users that
\* send them
RaceStatusInputs == {"confirmed", "completed"}
ShopOwners == {u \in Users : role(u) = "shop_owner"}

\* an item request of the customer overlapping with a status request of
\* the shop owner, on stored orders the item view accepts; earlier add
\* requests that ran alone have given the orders their items
NextItemStatusRace ==
    \/ \E u \in Customers, sh \in OrderShops, st \in MutableStatuses : store_order(u, sh, st)
    \/ \E u \in Customers, o \in OrderIds, sp \in OrderShopPrices, q \in Quantities :
          add_order_item(u, o, sp, q)
    \/ \E r \in Requests, u \in Customers, o \in OrderIds, sp \in OrderShopPrices, q \in Quantities :
          add_item_load(r, u, o, sp, q)
    \/ \E r \in Requests : add_item_insert(r)
    \/ \E r \in Requests, u \in Customers, o \in OrderIds, i \in ItemIds : remove_item_load(r, u, o, i)
    \/ \E r \in Requests : remove_item_delete(r)
    \/ \E r \in Requests : calculate_total_read(r)
    \/ \E r \in Requests : calculate_total_save(r)
    \/ \E r \in Requests, u \in ShopOwners, o \in OrderIds, st \in RaceStatusInputs : status_load(r, u, o, st)
    \/ \E r \in Requests : status_save(r)
    \/ \E r \in Requests : status_history(r)
    \/ \E r \in Requests : status_stamp(r)

SpecItemStatusRace == InitRequests /\ [][NextItemStatusRace]_vars

\* items added to stored orders the item view accepts, and service prices
\* deleted under them
NextCascade ==
    \/ \E u \in Customers, sh \in OrderShops, st \in MutableStatuses : store_order(u, sh, st)
    \/ \E u \in Users, o \in OrderIds, sp \in ServicePrices, q \in Quantities : add_order_item(u, o, sp, q)
    \/ \E u \in Users, o \in OrderIds, i \in ItemIds : remove_order_item(u, o, i)
    \/ \E sp \in ServicePrices : delete_service_price(sp)

SpecCascade == Init /\ [][NextCascade]_vars

(***************************************************************************)
(* Properties.                                                             *)
(***************************************************************************)

\* C1: for every order the stored subtotal equals the stored total_amount
\* and both equal the sum of total_price over the order's current items,
\* after any sequence of item saves and removals; an order without items
\* has both at zero.
C1_TotalsEqualItemSum ==
    \A o \in DOMAIN orders :
        /\ orders[o].subtotal = orders[o].total_amount
        /\ orders[o].subtotal = SumTotal(items, ItemsOf(items, o))
        /\ ItemsOf(items, o) = {} => orders[o].subtotal = 0 /\ orders[o].total_amount = 0

\* an order that had an item added and then its last item removed, next to
\* an order that still holds an item
C1_Witness ==
    /\ last.op = "remove_item" /\ last.code = 204
    /\ ItemsOf(items, last.arg) = {}
    /\ orders[last.arg].total_amount = 0
    /\ \E o \in DOMAIN orders : ItemsOf(items, o) # {} /\ orders[o].total_amount > 0

\* the status transition table of the specification
TerminalStatuses == {"completed", "cancelled"}
ValidTransition(a, b) ==
    \/ a = "pending" /\ b = "confirmed"
    \/ a = "confirmed" /\ b = "in_progress"
    \/ a = "in_progress" /\ b = "ready"
    \/ a = "ready" /\ b = "completed"
    \/ a \notin TerminalStatuses /\ b = "cancelled"

\* C2: a status change request succeeds only if the new status is the
\* direct successor of the current one or is cancelled from a non-terminal
\* status; any other request is rejected (400) and leaves the order's
\* status, timestamps and history unchanged.
C2_OnlyTableTransitions ==
    [][\A o \in DOMAIN orders :
          /\ orders'[o].status # orders[o].status
                => ValidTransition(orders[o].status, orders'[o].status)
          /\ \A u \in Users, st \in STATUS_CHOICES :
                (/\ update_order_status(u, o, st)
                 /\ CanUpdateOrders(u) /\ StatusQueryset(u, o)
                 /\ st # orders[o].status
                 /\ ~ValidTransition(orders[o].status, st))
                => (last'.code = 400 /\ orders'[o] = orders[o] /\ history'[o] = history[o])]_vars

\* C3: once an order's status is completed or cancelled, no later API
\* request changes that status.
C3_TerminalStatusStays ==
    [][\A o \in DOMAIN orders :
          orders[o].status \in TerminalStatuses => orders'[o].status = orders[o].status]_vars

\* C4: with earn and redeem calls executed one at a time, the cached
\* loyalty_points equals the initial balance plus the sum of the points of
\* the LoyaltyTransaction rows those calls created.
C4_BalanceEqualsLedgerSum == loyalty_points = initial_points + LedgerSum(ledger)

\* the ledger holds an earned and a redeemed row
C4_Witness ==
    /\ \E k \in DOMAIN ledger : ledger[k].type = "earned" /\ ledger[k].points > 0
    /\ \E k \in DOMAIN ledger : ledger[k].type = "redeemed" /\ ledger[k].points < 0
    /\ last.op = "redeem" /\ last.code = 200

C6_OneRedeemWins ==
    (/\ initial_points = 50
     /\ \A r \in Requests : reqs[r].pc = "done" /\ reqs[r].points = 30)
    => /\ Cardinality({r \in Requests : reqs[r].result = "ok"}) = 1
       /\ \A r \in Requests : reqs[r].result \in {"ok", "validation", "insufficient"}
       /\ loyalty_points = 20
       /\ Cardinality({k \in DOMAIN ledger : ledger[k].points < 0}) = 1

\* C7: an add or remove request on an order whose status is pending passes
\* the state guard.
C7_PendingPassesGuard ==
    (last.op \in {"add_item", "remove_item"} /\ last.detail = "invalid_state")
    => orders[last.arg].status # "pending"

\* C8: an add or remove request on an order whose status is confirmed,
\* in_progress, ready, completed or cancelled is rejected (400; 404 when the
\* caller cannot see the order) and leaves the item set and both totals
\* unchanged.
ClosedStatuses == {"confirmed", "in_progress", "ready", "completed", "cancelled"}

C8_ClosedOrderRejectsItems ==
    [][(/\ last'.op \in {"add_item", "remove_item"}
        /\ last'.arg \in DOMAIN orders
        /\ orders[last'.arg].status \in ClosedStatuses)
       => /\ items' = items
          /\ orders' = orders
          /\ last'.code = 400 \/ (last'.code = 404 /\ last'.detail = "not_found")]_vars

\* an add request on a confirmed order that holds an item was refused
C8_Witness ==
    /\ last.op = "add_item" /\ last.code = 400 /\ last.detail = "invalid_state"
    /\ last.arg \in DOMAIN orders
    /\ orders[last.arg].status = "confirmed"
    /\ ItemsOf(items, last.arg) # {}
    /\ orders[last.arg].total_amount > 0

C10_UnitPriceCaptured ==
    [][/\ \A i \in DOMAIN items' \ DOMAIN items : items'[i].unit_price = price[items'[i].sp]
       /\ \A i \in DOMAIN items' \cap DOMAIN items : items'[i].unit_price = items[i].unit_price
       /\ \A i \in DOMAIN items' : items'[i].total_price = items'[i].unit_price * items'[i].quantity]_vars

\* an item was saved again after its service price had changed, and kept
\* the price it was added with
C10_Witness ==
    /\ last.op = "resave_item"
    /\ last.arg \in DOMAIN items
    /\ items[last.arg].unit_price # price[items[last.arg].sp]
    /\ items[last.arg].quantity > 1

\* C11: an add request, or an item of a create request, with quantity 0, a
\* negative quantity or a quantity above 100 is rejected and persists
\* nothing, so every persisted item has 1 <= quantity <= 100.
C11_PersistedQuantityInRange ==
    \A i \in DOMAIN items : validate_order_quantity(items[i].quantity)

\* C12: no two persisted orders have the same order number; creating an
\* order with a number another order already has fails and persists
\* nothing; a later save never changes the number of a stored order.
C12_OrderNumbersUnique ==
    [][/\ \A a, b \in DOMAIN order_number' :
            order_number'[a].value = order_number'[b].value => a = b
       /\ \A sh \in Shops, n \in CustomNumbers \ {BlankNumber}, t \in Timestamps, r \in RandomSuffixes :
            (/\ create_numbered_order(sh, n, t, r)
             /\ \E j \in DOMAIN order_number : order_number[j].value = n)
            => (last'.detail = "IntegrityError" /\ order_number' = order_number)
       /\ \A o \in DOMAIN order_number :
            o \in DOMAIN order_number' /\ order_number'[o] = order_number[o]]_vars

\* a create with a number that a stored order holds was refused, and the
\* two stored orders have different numbers
C12_Witness ==
    /\ last.op = "create_numbered" /\ last.detail = "IntegrityError"
    /\ Cardinality(DOMAIN order_number) = MaxOrders
    /\ \E a, b \in DOMAIN order_number : order_number[a].value # order_number[b].value

\* C13: when the generated number of a new order is one a stored order
\* already has, creation takes a new number and tries again; the caller
\* never sees the uniqueness conflict.
C13_GeneratedNumberRetried ==
    last.op = "create_generated" => (last.code = 201 /\ last.detail # "IntegrityError")

\* C14: a status change that makes an order completed (here: an order of at
\* least one currency unit) credits the customer's ledger with one point per
\* currency unit of the order total, adds the total to the cumulative spend
\* and recomputes the tier from the new spend, all together.
C14_CompletionCreditsLoyalty ==
    [][\A o \in DOMAIN orders :
          (/\ o \in DOMAIN orders'
           /\ orders[o].status # "completed"
           /\ orders'[o].status = "completed"
           /\ orders'[o].total_amount >= CentsPerUnit)
          => LET total == orders'[o].total_amount
                 points == total \div CentsPerUnit
             IN /\ loyalty_points' = loyalty_points + points
                /\ ledger' = Append(ledger, LoyaltyTransaction("earned", points))
                /\ total_spent' = total_spent + total
                /\ membership_tier' = update_membership_tier(total_spent + total)]_vars

\* C16: create_notification with a template whose type the recipient has
\* switched off creates no notification and returns null; with a template
\* of type welcome, or with no template, the notification is created (its
\* data being storable) whatever the preferences are.
C16_PreferenceGating ==
    [][\A r \in Recipients, t \in TemplateNames \cup {NoTemplate}, d \in BOOLEAN :
          create_notification(r, t, d, NoExpiry) =>
            LET disabled == IF r \in DOMAIN prefs THEN prefs[r] ELSE {}
                gated == /\ t # NoTemplate
                         /\ template_type(t) \in DOMAIN type_mapping
                         /\ type_mapping[template_type(t)] \in disabled
                free == t = NoTemplate \/ template_type(t) = "welcome"
                new == DOMAIN notifications' \ DOMAIN notifications
            IN /\ gated => (notifications' = notifications /\ last'.detail = "null")
               /\ (free /\ d) =>
                     /\ last'.detail = "created"
                     /\ Cardinality(new) = 1
                     /\ \A n \in new : /\ notifications'[n].recipient = r
                                        /\ notifications'[n].template = t
                     /\ \A n \in DOMAIN notifications : notifications'[n] = notifications[n]]_vars

\* a promotion notification for a recipient who switched every field off
\* came back null, while a welcome notification of that recipient is stored
C16_Witness ==
    /\ last.op = "create_notification" /\ last.detail = "null"
    /\ last.arg.template = "promo"
    /\ last.arg.recipient \in DOMAIN prefs
    /\ prefs[last.arg.recipient] = PreferenceInputs
    /\ \E n \in DOMAIN notifications :
          /\ notifications[n].recipient = last.arg.recipient
          /\ notifications[n].template = "welcome_msg"

\* C17: create_from_template and the batch creation called with a template
\* name that matches no template, or only an inactive one, fail with a
\* NotFound error and create no Notification and no NotificationBatch.
C17_MissingTemplateNotFound ==
    [][(/\ last'.op \in {"create_from_template", "create_batch_notifications", "create_batch"}
        /\ last'.code # 403
        /\ ~ActiveTemplate(last'.arg.name))
       => /\ last'.detail = "NotFound"
          /\ notifications' = notifications
          /\ batches' = batches]_vars

\* C18: for any recipient list and any recipients whose creation fails or
\* is skipped, the batch creation returns a batch that is marked sent with
\* sent_at set, whose sent_count is the number of notifications created for
\* it and whose sent_count + failed_count is the number of recipients; a
\* failure for one recipient never makes the whole batch fail.
C18_BatchCountsRecipients ==
    [][\A n \in BatchTemplateInputs, l \in RecipientLists, d \in BOOLEAN :
          (create_batch_notifications(n, l, "owner1", d) /\ ActiveTemplate(n)) =>
            /\ last'.detail = "batch"
            /\ last'.arg.batch \in DOMAIN batches' \ DOMAIN batches
            /\ LET batch == batches'[last'.arg.batch]
               IN /\ batch.is_sent
                  /\ batch.sent_at # 0
                  /\ batch.sent_count = Cardinality(DOMAIN notifications' \ DOMAIN notifications)
                  /\ batch.sent_count + batch.failed_count = Len(l)]_vars

\* C15: every status change of an order creates exactly one notification
\* for the order's customer from the order_status_update template, when
\* that template is active and the customer has order notifications
\* switched on; a status request that changes nothing creates none.
C15_StatusChangeNotifiesCustomer ==
    [][\A o \in DOMAIN orders :
          (/\ last'.op = "update_status" /\ last'.arg = o
           /\ o \in DOMAIN orders'
           /\ ActiveTemplate("order_status_update")
           /\ \/ orders[o].customer \notin DOMAIN prefs
              \/ "order_notifications" \notin prefs[orders[o].customer])
          => LET new == {n \in DOMAIN notifications' \ DOMAIN notifications :
                           /\ notifications'[n].recipient = orders[o].customer
                           /\ notifications'[n].template = "order_status_update"}
             IN IF orders'[o].status # orders[o].status
                THEN Cardinality(new) = 1
                ELSE Cardinality(new) = 0]_vars

\* C19: cleanup_expired_notifications(days_old) deletes exactly the
\* notifications that are past expires_at or that were created more than
\* days_old days ago and are read or archived; every unread notification
\* that has not expired survives, and the returned count is the number of
\* notifications deleted.
C19_CleanupDeletesExactly ==
    [][\A d \in DaysOldInputs :
          cleanup_expired_notifications(d) =>
            LET past == {n \in DOMAIN notifications :
                           notifications[n].expires_at # NoExpiry /\ notifications[n].expires_at < clock}
                old == {n \in DOMAIN notifications :
                          /\ clock - notifications[n].created_at > d
                          /\ notifications[n].status \in {"read", "archived"}}
            IN /\ DOMAIN notifications' = DOMAIN notifications \ (past \cup old)
               /\ \A n \in DOMAIN notifications' : notifications'[n] = notifications[n]
               /\ \A n \in DOMAIN notifications :
                     (notifications[n].status = "unread" /\ n \notin past) => n \in DOMAIN notifications'
               /\ last'.arg = Cardinality(DOMAIN notifications) - Cardinality(DOMAIN notifications')]_vars

\* a cleanup deleted a notification and left an older unread one in place
C19_Witness ==
    /\ last.op = "cleanup_expired_notifications" /\ last.arg >= 1
    /\ \E n \in DOMAIN notifications :
          /\ notifications[n].status = "unread"
          /\ notifications[n].created_at < clock

\* C20: under update requests and mark_all_as_read calls the status of a
\* notification only moves unread -> read, unread -> archived or
\* read -> archived; it never returns to unread and an archived one never
\* becomes read; a request for any other target status is rejected.
C20_NotificationStatusMoves ==
    [][/\ \A n \in DOMAIN notifications \cap DOMAIN notifications' :
            LET a == notifications[n].status
                b == notifications'[n].status
            IN \/ a = b
               \/ a = "unread" /\ b \in {"read", "archived"}
               \/ a = "read" /\ b = "archived"
       /\ \A u \in Users, n \in NotificationIds, st \in NotificationStatusInputs :
            (/\ update_notification(u, n, st)
             /\ n \in DOMAIN notifications /\ notifications[n].recipient = u
             /\ st \notin {"read", "archived", NoStatus})
            => (last'.code = 400 /\ notifications' = notifications)]_vars

\* a notification that was read has been archived by its recipient
C20_Witness ==
    /\ last.op = "update_notification" /\ last.code = 200
    /\ last.arg \in DOMAIN notifications
    /\ notifications[last.arg].status = "archived"
    /\ notifications[last.arg].read_at # 0

\* C21: update_membership_tier sets the tier to bronze below 200, silver
\* from 200 and below 500, gold from 500 and below 1000 and platinum from
\* 1000 on; the tier depends on total_spent alone, no other profile field
\* changes, and a second call with the same spend changes nothing.
C21_TierFromSpend ==
    [][last'.op = "update_membership_tier" =>
          LET units == 100
              expected == CASE total_spent < 200 * units -> "bronze"
                            [] total_spent >= 200 * units /\ total_spent < 500 * units -> "silver"
                            [] total_spent >= 500 * units /\ total_spent < 1000 * units -> "gold"
                            [] total_spent >= 1000 * units -> "platinum"
          IN /\ membership_tier' = expected
             /\ total_spent' = total_spent
             /\ loyalty_points' = loyalty_points
             /\ ledger' = ledger
             /\ last.op = "update_membership_tier" => membership_tier' = membership_tier]_vars

\* a profile stored as bronze with a spend of exactly 500 has been made
\* gold, its points balance being what it was
C21_Witness ==
    /\ last.op = "update_membership_tier"
    /\ total_spent = 500 * CentsPerUnit
    /\ membership_tier = "gold"
    /\ loyalty_points = 50

C23_HistoryFollowsStatus ==
    [][\A o \in DOMAIN orders :
          /\ o \in DOMAIN orders'
          /\ IF orders'[o].status = orders[o].status
             THEN history'[o] = history[o]
             ELSE /\ Len(history'[o]) = Len(history[o]) + 1
                  /\ SubSeq(history'[o], 1, Len(history[o])) = history[o]
                  /\ history'[o][Len(history'[o])].status = orders'[o].status
                  /\ \A u \in Users, st \in StatusInputs :
                        update_order_status(u, o, st) => history'[o][Len(history'[o])].changed_by = u
                  /\ \E u \in Users, st \in StatusInputs : update_order_status(u, o, st)
          /\ history'[o] # <<>> => history'[o][Len(history'[o])].status = orders'[o].status]_vars

\* an order changed twice, by the owner and by the staff member, shows its
\* current status in its newest history row
C23_Witness ==
    /\ last.op = "update_status" /\ last.code = 200
    /\ last.arg \in DOMAIN orders
    /\ Len(history[last.arg]) = 2
    /\ history[last.arg][1].changed_by # history[last.arg][2].changed_by
    /\ history[last.arg][1].status # history[last.arg][2].status
    /\ history[last.arg][2].status = orders[last.arg].status

\* C24: a status update request whose status equals the order's current
\* status, or that carries no status, appends no history row and leaves
\* confirmed_at and completed_at as they were.
C24_SameStatusChangesNothing ==
    [][\A u \in Users, o \in DOMAIN orders, st \in StatusInputs :
          ((st = NoStatus \/ st = orders[o].status) /\ update_order_status(u, o, st))
          => /\ history'[o] = history[o]
             /\ orders'[o].confirmed_at = orders[o].confirmed_at
             /\ orders'[o].completed_at = orders[o].completed_at
             /\ orders'[o].status = orders[o].status]_vars

\* a confirmed order answered 200 to a status request after another order
\* had changed, and still has the one history row and the confirmed_at of
\* its confirmation
C24_Witness ==
    /\ last.op = "update_status" /\ last.code = 200
    /\ last.arg \in DOMAIN orders
    /\ orders[last.arg].status = "confirmed"
    /\ Len(history[last.arg]) = 1
    /\ orders[last.arg].confirmed_at = history[last.arg][1].changed_at
    /\ clock > history[last.arg][1].changed_at + 1

C26_OwnerNotifiedOnReadyOrCompleted ==
    [][\A o \in DOMAIN orders, old \in STATUS_CHOICES, new \in STATUS_CHOICES :
          (/\ notify_order_status_change(o, old, new)
           /\ ActiveTemplate("order_status_update") /\ ActiveTemplate("order_status_update_shop")
           /\ \A u \in {orders[o].customer, ShopOwner(orders[o].shop)} :
                 u \in DOMAIN prefs => "order_notifications" \notin prefs[u])
          => LET created == DOMAIN notifications' \ DOMAIN notifications
                 forCustomer == {n \in created : /\ notifications'[n].recipient = orders[o].customer
                                                 /\ notifications'[n].template = "order_status_update"}
                 forOwner == {n \in created : /\ notifications'[n].recipient = ShopOwner(orders[o].shop)
                                              /\ notifications'[n].template = "order_status_update_shop"}
             IN /\ Cardinality(forCustomer) = 1
                /\ Cardinality(forOwner) = IF new \in {"ready", "completed"} THEN 1 ELSE 0
                /\ created = forCustomer \cup forOwner]_vars

\* sum of sent_count over a set of batch rows
RECURSIVE SentTotal(_, _)
SentTotal(bts, S) ==
    IF S = {} THEN 0
    ELSE LET b == CHOOSE x \in S : TRUE IN bts[b].sent_count + SentTotal(bts, S \ {b})

\* C27: whatever point a batch creation is interrupted at, the database
\* holds either the batch bookkeeping (marked sent, counts, sent_at) together
\* with all notification rows created for the batch, or none of these; a
\* batch is never marked sent with counts that differ from the stored
\* notifications.
C27_BatchAllOrNothing ==
    /\ \A b \in DOMAIN batches :
          IF batches[b].is_sent
          THEN batches[b].sent_at # 0
          ELSE batches[b].sent_count = 0 /\ batches[b].failed_count = 0 /\ batches[b].sent_at = 0
    /\ SentTotal(batches, DOMAIN batches) = Cardinality(DOMAIN notifications)

\* a call was interrupted inside the block after it had written a
\* notification row: the batch row is there, unsent, and no notification is
C27_Witness ==
    /\ last.op = "batch_crash" /\ last.arg >= 1
    /\ \E b \in DOMAIN batches : ~batches[b].is_sent /\ batches[b].target_users # {}
    /\ notifications = <<>>

\* C28: earn is atomic: once a call has ended, also by a failure between
\* its two writes, the cached balance is the initial balance plus the sum
\* of the ledger rows, so the balance is never increased without a matching
\* row; and earn accepts only points > 0, so every earned row has positive
\* points.
C28_EarnAtomicAndPositive ==
    (\A r \in Requests : reqs[r].pc \in {"idle", "done"})
    => /\ loyalty_points = initial_points + LedgerSum(ledger)
       /\ \A k \in DOMAIN ledger : ledger[k].type = "earned" => ledger[k].points > 0

C30_CascadeKeepsTotals ==
    [][\A sp \in ServicePrices :
          (delete_service_price(sp) /\ \E i \in DOMAIN items : items[i].sp = sp)
          => /\ \A i \in DOMAIN items : items[i].sp = sp => i \notin DOMAIN items'
             /\ \A o \in DOMAIN orders' :
                   /\ orders'[o].subtotal = SumTotal(items', ItemsOf(items', o))
                   /\ orders'[o].total_amount = SumTotal(items', ItemsOf(items', o))]_vars
====
